---- MODULE Spec2Model ----
(***************************************************************************)
(* Verification model of the BookForge document builder (buildBookPdf):    *)
(* cover, table-of-contents reservation, gallery, chapter pagination with  *)
(* anchored images, the deferred TOC fill pass and the footer pass.        *)
(*                                                                         *)
(* Lengths are integers in units of 1/10000 pt, so that every product of   *)
(* a font size with a theme multiplier (1.35, 0.55, 1.05 * 1.2, ...) and   *)
(* 35% of a page height is exact.                                          *)
(***************************************************************************)
EXTENDS Integers, Sequences, FiniteSets, TLC

\* ------------------------------------------------------------------------
\* Bounds of the explored inputs
\* ------------------------------------------------------------------------
MaxChapters == 6
MaxLines == 7

\* ------------------------------------------------------------------------
\* Arithmetic helpers
\* ------------------------------------------------------------------------
Pt(n) == n * 10000

Max(a, b) == IF a >= b THEN a ELSE b

Min(a, b) == IF a <= b THEN a ELSE b

Min3(a, b, c) == Min(a, Min(b, c))

\* Math.ceil(a / b) for a >= 0, b > 0
CeilDiv(a, b) == (a + b - 1) \div b

RECURSIVE SumSeq(_)
SumSeq(s) == IF s = <<>> THEN 0 ELSE Head(s) + SumSeq(Tail(s))

\* ------------------------------------------------------------------------
\* Configuration tables
\* ------------------------------------------------------------------------
\* pdf-lib PageSizes: [width, height] in points
PageSizes ==
    [A4 |-> [width |-> 5952800, height |-> 8418900],
     Letter |-> [width |-> 6120000, height |-> 7920000]]

\* theme multipliers (lineHeightMultiplier, paragraphSpacingMultiplier)
THEME_DEFINITIONS ==
    [aurora |-> [lineHeightMultiplier |-> 13500, paragraphSpacingMultiplier |-> 5500],
     editorial |-> [lineHeightMultiplier |-> 13200, paragraphSpacingMultiplier |-> 5000],
     midnight |-> [lineHeightMultiplier |-> 14000, paragraphSpacingMultiplier |-> 6000]]

marginPresets ==
    [small |-> [top |-> Pt(36), bottom |-> Pt(36), left |-> Pt(36), right |-> Pt(36)],
     medium |-> [top |-> Pt(72), bottom |-> Pt(72), left |-> Pt(72), right |-> Pt(72)],
     large |-> [top |-> Pt(108), bottom |-> Pt(108), left |-> Pt(108), right |-> Pt(108)]]

DEFAULT_PDF_CONFIG ==
    [pageSize |-> "A4",
     margins |-> [top |-> Pt(64), bottom |-> Pt(64), left |-> Pt(60), right |-> Pt(60)],
     pageNumbering |-> TRUE,
     headingSize |-> 24,
     bodySize |-> 12,
     stylePreset |-> "aurora"]

\* The configurations explored: the default one and four the designer
\* dialogs can produce (margin presets, font sizes within 8..64).
Configs ==
    { DEFAULT_PDF_CONFIG,
      [pageSize |-> "Letter", margins |-> marginPresets.large, pageNumbering |-> TRUE,
       headingSize |-> 24, bodySize |-> 64, stylePreset |-> "midnight"],
      [pageSize |-> "A4", margins |-> marginPresets.small, pageNumbering |-> FALSE,
       headingSize |-> 64, bodySize |-> 8, stylePreset |-> "editorial"],
      [pageSize |-> "Letter", margins |-> marginPresets.medium, pageNumbering |-> TRUE,
       headingSize |-> 40, bodySize |-> 40, stylePreset |-> "aurora"],
      [pageSize |-> "Letter", margins |-> marginPresets.large, pageNumbering |-> TRUE,
       headingSize |-> 64, bodySize |-> 64, stylePreset |-> "editorial"] }

\* ------------------------------------------------------------------------
\* Inputs: structured blocks, chapters, books, images
\* ------------------------------------------------------------------------
\* A block as the layout sees it: its kind, heading level, and for
\* paragraph / quote / list the number of wrapped lines of each item.
Heading(level) == [kind |-> "heading", level |-> level, items |-> <<>>]

Paragraph(n) == [kind |-> "paragraph", level |-> 0, items |-> <<n>>]

Quote(n) == [kind |-> "quote", level |-> 0, items |-> <<n>>]

List(ns) == [kind |-> "list", level |-> 0, items |-> ns]

\* chapter shapes: whether chapter.text is blank, the number of wrapped
\* title lines, and the blocks left after parsing and title stripping
ChapterShapes ==
    { [blankText |-> TRUE, titleLines |-> 1, blocks |-> <<>>],
      [blankText |-> FALSE, titleLines |-> 1, blocks |-> <<>>],
      [blankText |-> FALSE, titleLines |-> 1, blocks |-> <<Paragraph(1)>>],
      [blankText |-> FALSE, titleLines |-> 2,
       blocks |-> <<Heading(1), Paragraph(2), List(<<1, 2>>)>>],
      [blankText |-> FALSE, titleLines |-> 1,
       blocks |-> <<Paragraph(1), Paragraph(0), Quote(1), Heading(3)>>],
      [blankText |-> FALSE, titleLines |-> 1, blocks |-> <<Paragraph(MaxLines)>>] }

UniformShape == [blankText |-> FALSE, titleLines |-> 1, blocks |-> <<Paragraph(1)>>]

Chapter(i, shape) ==
    [index |-> i, title |-> i, blankText |-> shape.blankText,
     titleLines |-> shape.titleLines, blocks |-> shape.blocks]

\* books of at most two chapters of any shape, and longer uniform books
Books ==
    { <<>> }
    \cup { <<Chapter(1, s)>> : s \in ChapterShapes }
    \cup { <<Chapter(1, s), Chapter(2, t)>> : s \in ChapterShapes, t \in ChapterShapes }
    \cup { [i \in 1..n |-> Chapter(i, UniformShape)] : n \in 3..MaxChapters }

NoPlacement == [type |-> "none", coverSlot |-> "none", chapterIndex |-> 0, anchor |-> "unset"]

GalleryPlacement == [type |-> "gallery", coverSlot |-> "none", chapterIndex |-> 0, anchor |-> "unset"]

CoverPlacement(slot) == [type |-> "cover", coverSlot |-> slot, chapterIndex |-> 0, anchor |-> "unset"]

ChapterPlacement(idx, anchor) ==
    [type |-> "chapter", coverSlot |-> "none", chapterIndex |-> idx, anchor |-> anchor]

\* a user image: id, inclusion flag, placement, pixel size of the decoded
\* image, whether it has a non-blank caption, and whether its data URL and
\* bytes can be decoded
Image(id, include, placement, w, h, caption) ==
    [id |-> id, include |-> include, placement |-> placement,
     width |-> w, height |-> h, caption |-> caption, decodes |-> TRUE]

\* the same asset with bytes that embedPng / embedJpg cannot parse
Undecodable(im) == [im EXCEPT !.decodes = FALSE]

ImageLists ==
    { <<>>,
      << Image(1, TRUE, ChapterPlacement(1, "start"), 100, 100, TRUE),
         Image(2, TRUE, ChapterPlacement(1, "middle"), 2000, 1000, FALSE),
         Image(3, TRUE, ChapterPlacement(1, "end"), 400, 1200, TRUE) >>,
      << Image(1, TRUE, NoPlacement, 400, 1200, FALSE),
         Image(2, TRUE, GalleryPlacement, 100, 100, TRUE),
         Image(3, TRUE, NoPlacement, 2000, 1000, TRUE) >>,
      << Image(1, TRUE, ChapterPlacement(1, "middle"), 400, 1200, TRUE),
         Image(2, TRUE, ChapterPlacement(1, "middle"), 400, 1200, FALSE),
         Image(3, TRUE, ChapterPlacement(2, "unset"), 100, 100, FALSE) >>,
      << Image(1, TRUE, ChapterPlacement(5, "start"), 100, 100, TRUE),
         Image(2, FALSE, ChapterPlacement(1, "middle"), 100, 100, TRUE),
         Image(3, TRUE, CoverPlacement("background"), 2000, 1000, FALSE) >>,
      << Image(1, TRUE, ChapterPlacement(2, "end"), 400, 1200, TRUE),
         Image(2, TRUE, ChapterPlacement(2, "start"), 400, 1200, TRUE),
         Image(3, TRUE, ChapterPlacement(2, "middle"), 400, 1200, TRUE),
         Image(4, TRUE, CoverPlacement("badge"), 100, 100, FALSE) >>,
      \* one asset listed twice, as the cover badge and in the gallery, and
      \* an asset with broken bytes
      << Image(1, TRUE, CoverPlacement("badge"), 100, 100, TRUE),
         Image(1, TRUE, GalleryPlacement, 100, 100, TRUE),
         Undecodable(Image(2, TRUE, ChapterPlacement(1, "end"), 100, 100, FALSE)) >>,
      << Undecodable(Image(1, TRUE, CoverPlacement("badge"), 100, 100, FALSE)) >>,
      << Image(1, TRUE, CoverPlacement("background"), 2000, 1000, FALSE),
         Undecodable(Image(2, TRUE, GalleryPlacement, 100, 100, TRUE)) >>,
      \* images that decode to an empty pixel grid
      << Image(1, TRUE, ChapterPlacement(1, "middle"), 0, 50, TRUE),
         Image(2, TRUE, GalleryPlacement, 300, 0, FALSE) >> }

VARIABLES
    book,                 \* the GeneratedBook: its chapters
    config,               \* the resolved PdfConfig
    images,               \* options.images
    pc,                   \* position of the build in buildBookPdf
    sub,                  \* within a drawing step: "ensure" then "draw"
    pages,                \* the pages of pdfDoc, in creation order
    pageMeta,             \* the page-metadata list
    tocEntries,           \* entries recorded while rendering chapters
    tocPages,             \* the reserved placeholder pages with their nextY
    state,                \* the chapter cursor: current page and y
    chPos,                \* position of the chapter loop in book.chapters
    imgPos,               \* position in the image list being drawn
    blockIndex,           \* block loop variable (0-based, as in the code)
    unitIndex,            \* next drawing unit of the current block
    middleInserted,       \* the middleInserted flag
    ret,                  \* where the middle images return to
    galleryPos,           \* gallery loop position
    gallery,              \* gallery cursor: page, galleryY, rowMaxHeight
    tocPos,               \* TOC fill: next entry
    tocPageIndex,         \* TOC fill: pageIndex (0-based)
    footerPos,            \* footer pass: next page-metadata record
    numberedPageCounter,  \* footer pass: running counter
    embeddedImageCache,   \* asset ids embedded so far
    embedCalls,           \* asset ids passed to embedUserImage, in call order
    chapLog,              \* events of the chapter being rendered, in order
    lastDraws,            \* what the latest drawing step drew
    previous,             \* output of the preceding build of the same book
    wrap,                 \* one call of wrapTokens: arguments, locals, result
    parser,               \* one call of parseMarkdownToBlocks: the same
    inline,               \* one call of parseInlineSpans: argument and result
    strip,                \* a call of stripLeadingChapterHeading, and a second one on its result
    gen,                  \* one call of generateChaptersWithGemini: queue, workers, results
    retry,                \* one call of withRetry: parameters, calls made, errors caught, delays waited
    svc,                  \* one call of generateOutline or generateChapters: arguments, position, result
    para,                 \* pdfService.ts: one paragraph block: cursor, wrapped lines, lines drawn
    hook,                 \* useBookGeneration: the generation state and the generateBook calls in flight
    quota,                \* useGenerationQuota: the quota state, the day, and the generations it paid for
    upl                   \* App: the user images and the uploads in flight

inputs == <<book, config, images>>

\* state of the functions that are exercised on their own
pureVars == <<wrap, parser, inline, strip, gen, retry, svc, para, hook, quota, upl>>

\* state that a build in progress never touches
restVars == <<previous, pureVars>>

chapterVars == <<chPos, imgPos, blockIndex, unitIndex, middleInserted, ret>>

galleryVars == <<galleryPos, gallery>>

finishVars == <<tocPos, tocPageIndex, footerPos, numberedPageCounter>>

embedVars == <<embeddedImageCache, embedCalls>>

\* everything a build reads or writes
buildVars == <<inputs, pc, sub, pages, pageMeta, tocEntries, tocPages, state, chapterVars,
               galleryVars, finishVars, embedVars, chapLog, lastDraws, previous>>

vars == <<book, config, images, pc, sub, pages, pageMeta, tocEntries, tocPages, state,
          chPos, imgPos, blockIndex, unitIndex, middleInserted, ret, galleryPos, gallery,
          tocPos, tocPageIndex, footerPos, numberedPageCounter, embeddedImageCache,
          embedCalls, chapLog, lastDraws, previous, wrap, parser,
          inline,
          strip,
          gen,
          retry,
          svc,
          para,
          hook,
          quota,
          upl>>

\* ------------------------------------------------------------------------
\* Derived layout quantities
\* ------------------------------------------------------------------------
pageWidth == PageSizes[config.pageSize].width

pageHeight == PageSizes[config.pageSize].height

contentWidth == pageWidth - config.margins.left - config.margins.right

lineHeight == config.bodySize * THEME_DEFINITIONS[config.stylePreset].lineHeightMultiplier

paragraphSpacing ==
    config.bodySize * THEME_DEFINITIONS[config.stylePreset].paragraphSpacingMultiplier

\* cover page is excluded from numbering
coverPageCount == 1

\* ------------------------------------------------------------------------
\* Image placement resolver
\* ------------------------------------------------------------------------
\* variant: the include flag is not consulted
includedImagesAll == images

includedImages == SelectSeq(images, LAMBDA im : im.include)

\* variant: a chapter image that no chapter claims falls back to the gallery
galleryImagesWithOrphans ==
    SelectSeq(includedImages,
              LAMBDA im : \/ im.placement.type \in {"none", "gallery"}
                          \/ /\ im.placement.type = "chapter"
                             /\ \A j \in DOMAIN book :
                                    book[j].index # im.placement.chapterIndex)

galleryImages ==
    SelectSeq(includedImages, LAMBDA im : im.placement.type \in {"none", "gallery"})

coverImages == SelectSeq(includedImages, LAMBDA im : im.placement.type = "cover")

\* chapterImageMap.get(idx) ?? []
chapterImageMap(idx) ==
    SelectSeq(includedImages,
              LAMBDA im : im.placement.type = "chapter" /\ im.placement.chapterIndex = idx)

resolveAnchor(asset) ==
    IF asset.placement.type = "chapter"
    THEN (IF asset.placement.anchor = "unset" THEN "start" ELSE asset.placement.anchor)
    ELSE "start"

AnchorImages(idx, anchor) ==
    SelectSeq(chapterImageMap(idx), LAMBDA im : resolveAnchor(im) = anchor)

\* the cover assets of one slot
CoverSlotAssets(slot) ==
    SelectSeq(coverImages, LAMBDA im : im.placement.coverSlot = slot)

\* Math.min(1, maxW / width, maxH / height): the scale is kept as length
\* units per pixel, rounded down; a quotient by zero is Infinity and never
\* the minimum
ImageScale(im, maxW, maxH) ==
    Min3(Pt(1),
         IF im.width = 0 THEN Pt(1) ELSE maxW \div im.width,
         IF im.height = 0 THEN Pt(1) ELSE maxH \div im.height)

\* scaled size of an image fitted into maxW x maxH (scale never above 1)
ScaledWidth(im, maxW, maxH) == im.width * ImageScale(im, maxW, maxH)

ScaledHeight(im, maxW, maxH) == im.height * ImageScale(im, maxW, maxH)

\* embedUserImage throws: the data URL or the image bytes cannot be decoded
EmbedThrows(asset) == ~asset.decodes

\* variant: an asset that cannot be embedded is passed over
RECURSIVE EmbeddingPassingOverFailures(_, _, _)
EmbeddingPassingOverFailures(assets, cache, calls) ==
    IF assets = <<>> THEN [cache |-> cache, calls |-> calls, threw |-> FALSE]
    ELSE IF Head(assets).id \in cache
         THEN EmbeddingPassingOverFailures(Tail(assets), cache, calls)
         ELSE EmbeddingPassingOverFailures(
                  Tail(assets),
                  IF EmbedThrows(Head(assets)) THEN cache ELSE cache \cup {Head(assets).id},
                  Append(calls, Head(assets).id))

\* variant: every request embeds the asset anew
RECURSIVE EmbeddingWithoutCache(_, _, _)
EmbeddingWithoutCache(assets, cache, calls) ==
    IF assets = <<>> THEN [cache |-> cache, calls |-> calls, threw |-> FALSE]
    ELSE IF EmbedThrows(Head(assets))
         THEN [cache |-> cache, calls |-> Append(calls, Head(assets).id), threw |-> TRUE]
         ELSE EmbeddingWithoutCache(Tail(assets), cache \cup {Head(assets).id},
                                    Append(calls, Head(assets).id))

\* getEmbeddedImageForAsset for the assets one step requests, in order: an
\* id in the cache is answered from it, any other id is passed to
\* embedUserImage, whose exception ends the step
RECURSIVE Embedding(_, _, _)
Embedding(assets, cache, calls) ==
    IF assets = <<>> THEN [cache |-> cache, calls |-> calls, threw |-> FALSE]
    ELSE IF Head(assets).id \in cache
         THEN Embedding(Tail(assets), cache, calls)
         ELSE IF EmbedThrows(Head(assets))
              THEN [cache |-> cache, calls |-> Append(calls, Head(assets).id), threw |-> TRUE]
              ELSE Embedding(Tail(assets), cache \cup {Head(assets).id},
                             Append(calls, Head(assets).id))

\* the assets the cover step requests: the first background, then the first badge
CoverRequests ==
    (IF CoverSlotAssets("background") = <<>> THEN <<>> ELSE <<CoverSlotAssets("background")[1]>>)
    \o (IF CoverSlotAssets("badge") = <<>> THEN <<>> ELSE <<CoverSlotAssets("badge")[1]>>)

\* ------------------------------------------------------------------------
\* Pages and page metadata
\* ------------------------------------------------------------------------
NoTitle == 0

BlankPage == [label |-> 0, banner |-> FALSE, footer |-> 0, toc |-> <<>>]

Meta(page, role, chapterTitle) == [page |-> page, role |-> role, chapterTitle |-> chapterTitle]

\* no build of this book has finished yet
NoBuild == [built |-> FALSE, pages |-> <<>>, pageMeta |-> <<>>, tocEntries |-> <<>>]

\* no call of wrapTokens is in progress
WrapIdle ==
    [at |-> "idle", tokens |-> <<>>, maxWidth |-> 0, pos |-> 1,
     currentLine |-> <<>>, lineWidth |-> 0, lines |-> <<>>]

\* no call of parseMarkdownToBlocks is in progress
ParserIdle ==
    [at |-> "idle", rawText |-> <<>>, lines |-> <<>>, i |-> 0, paragraphBuffer |-> <<>>,
     bufferFrom |-> 0, blocks |-> <<>>, origin |-> <<>>]

\* no call of parseInlineSpans is in progress
InlineIdle == [at |-> "idle", text |-> <<>>, spans |-> <<>>]

\* no call of stripLeadingChapterHeading is in progress
StripIdle == [at |-> "idle", blocks |-> <<>>, chapterTitle |-> <<>>, results |-> <<>>]

\* no call of generateChaptersWithGemini is in progress
GenIdle ==
    [at |-> "idle", stubs |-> <<>>, queue |-> <<>>, results |-> <<>>, workers |-> <<>>,
     taken |-> <<>>, value |-> <<>>]

\* no call of withRetry is in progress
RetryIdle ==
    [at |-> "idle", retries |-> 0, initialDelay |-> 0, calls |-> 0, errors |-> <<>>,
     delays |-> <<>>]

\* no call of generateOutline or generateChapters is in progress
SvcIdle ==
    [at |-> "idle", fn |-> "none", hasKey |-> FALSE, stubs |-> <<>>, warning |-> "none",
     result |-> [data |-> [source |-> "none", chapters |-> <<>>], usedFallback |-> FALSE,
                 warning |-> "none"]]

\* no paragraph block of the buildBookPdf of pdfService.ts is being rendered
ParaIdle ==
    [at |-> "idle", lines |-> 0, dropcap |-> FALSE, page |-> 0, y |-> 0, pos |-> 1,
     drawn |-> <<>>]

\* useBookGeneration.ts: `undefined` in the fields book, outline and error
NoBook == [undefined |-> TRUE]

NoOutline == [undefined |-> TRUE]

NoError == "undefined"

\* the generation state a mounted hook starts with
initialState ==
    [step |-> "idle", progress |-> 0, message |-> "Waiting to start...",
     book |-> NoBook, error |-> NoError, warnings |-> <<>>]

\* a mounted useBookGeneration on which nothing was called yet: `calls` are
\* the generateBook calls that are awaiting the generation service, `started`
\* counts the generateBook calls, `sinceReset` tells that reset() ran and no
\* generateBook call began after it, `last` is the operation applied last,
\* `mounted` tells that the App that uses the hook is still rendered
HookIdle ==
    [state |-> initialState, calls |-> <<>>, started |-> 0, sinceReset |-> FALSE,
     mounted |-> TRUE,
     last |-> [op |-> "mount", chapterIndex |-> 0, text |-> "none"]]

\* useGenerationQuota.ts: the daily allowance
BASE_LIMIT == 2

\* a mounted useGenerationQuota on the first day with nothing stored: `state`
\* is the hook's state and `today` the day getTodayKey returns; `notice` is
\* the App's quotaNotice; `startDays` holds, for each generateBook call in
\* flight, the day its handleGenerate ran, `kept[d]` counts the generations
\* started on day d and not refunded, `granted[d]` the share bonuses of day
\* d, `reloads` the page loads after the first
QuotaIdle ==
    [state |-> [date |-> 1, used |-> 0, bonus |-> 0], today |-> 1, notice |-> "none",
     startDays |-> <<>>, kept |-> <<>>, granted |-> <<>>, reloads |-> 0,
     last |-> "mount"]

\* App: the user images. `userImages` holds the source of each image in
\* the list, `selections` the handleImagesSelected calls whose file reads are
\* pending (each with the number of files it will add), `fetches` the number
\* of handleAddImageByUrl calls awaiting their download
MAX_IMAGE_UPLOADS == 12

UploadIdle ==
    [userImages |-> <<>>, selections |-> <<>>, fetches |-> 0, imageStatus |-> "none",
     selected |-> 0, linked |-> 0, removed |-> 0]

\* every function or handler exercised on its own, except those named in
\* `owns`, is not being called
AllIdleBut(owns) ==
    /\ IF "wrap" \in owns THEN TRUE ELSE wrap = WrapIdle
    /\ IF "parser" \in owns THEN TRUE ELSE parser = ParserIdle
    /\ IF "inline" \in owns THEN TRUE ELSE inline = InlineIdle
    /\ IF "strip" \in owns THEN TRUE ELSE strip = StripIdle
    /\ IF "gen" \in owns THEN TRUE ELSE gen = GenIdle
    /\ IF "retry" \in owns THEN TRUE ELSE retry = RetryIdle
    /\ IF "svc" \in owns THEN TRUE ELSE svc = SvcIdle
    /\ IF "para" \in owns THEN TRUE ELSE para = ParaIdle
    /\ IF "hook" \in owns THEN TRUE ELSE hook = HookIdle
    /\ IF "quota" \in owns THEN TRUE ELSE quota = QuotaIdle
    /\ IF "upl" \in owns THEN TRUE ELSE upl = UploadIdle

\* ... and stays so
AllUnchangedBut(owns) ==
    /\ IF "wrap" \in owns THEN TRUE ELSE UNCHANGED wrap
    /\ IF "parser" \in owns THEN TRUE ELSE UNCHANGED parser
    /\ IF "inline" \in owns THEN TRUE ELSE UNCHANGED inline
    /\ IF "strip" \in owns THEN TRUE ELSE UNCHANGED strip
    /\ IF "gen" \in owns THEN TRUE ELSE UNCHANGED gen
    /\ IF "retry" \in owns THEN TRUE ELSE UNCHANGED retry
    /\ IF "svc" \in owns THEN TRUE ELSE UNCHANGED svc
    /\ IF "para" \in owns THEN TRUE ELSE UNCHANGED para
    /\ IF "hook" \in owns THEN TRUE ELSE UNCHANGED hook
    /\ IF "quota" \in owns THEN TRUE ELSE UNCHANGED quota
    /\ IF "upl" \in owns THEN TRUE ELSE UNCHANGED upl

OthersIdle(own) == AllIdleBut({own})

OthersUnchanged(own) == AllUnchangedBut({own})

\* the document and the bookkeeping of a build before its first step
FreshBuild ==
    /\ sub = "ensure"
    /\ pages = <<>>
    /\ pageMeta = <<>>
    /\ tocEntries = <<>>
    /\ tocPages = <<>>
    /\ state = [page |-> 0, y |-> 0]
    /\ chPos = 1
    /\ imgPos = 1
    /\ blockIndex = 0
    /\ unitIndex = 1
    /\ middleInserted = FALSE
    /\ ret = "blockLoop"
    /\ galleryPos = 1
    /\ gallery = [page |-> 0, y |-> 0, rowMaxHeight |-> 0]
    /\ tocPos = 1
    /\ tocPageIndex = 0
    /\ footerPos = 1
    /\ numberedPageCounter = 0
    /\ embeddedImageCache = {}
    /\ embedCalls = <<>>
    /\ chapLog = <<>>
    /\ lastDraws = {}
    /\ previous = NoBuild

Init ==
    /\ config \in Configs
    /\ book \in Books
    /\ images \in ImageLists
    /\ pc = "cover"
    /\ FreshBuild
    /\ OthersIdle("build")

\* --- Cover Page ---
CoverPage ==
    /\ pc = "cover"
    /\ pages' = Append(pages, BlankPage)
    /\ pageMeta' = Append(pageMeta, Meta(Len(pages) + 1, "cover", NoTitle))
    /\ LET embedded == Embedding(CoverRequests, embeddedImageCache, embedCalls)
       IN /\ ~embedded.threw
          /\ embeddedImageCache' = embedded.cache
          /\ embedCalls' = embedded.calls
    /\ pc' = "toc"
    /\ UNCHANGED <<restVars, inputs, sub, tocEntries, tocPages, state, chapterVars, galleryVars,
                   finishVars, chapLog, lastDraws>>

\* --- Table of Contents Placeholder Pages ---
availableTocHeight ==
    pageHeight - config.margins.top - config.margins.bottom - config.headingSize * 15000

tocEntriesPerPage == Max(1, availableTocHeight \div lineHeight)

tocPageCount == Max(1, CeilDiv(Len(book), tocEntriesPerPage))

\* nextY of a fresh placeholder page
TocFirstRowY == pageHeight - config.margins.top - config.headingSize * 18000

\* variant: placeholder pages registered under the cover role
TocRoleAsCover == "cover"

TocRole == "toc"

ReserveTocPages ==
    /\ pc = "toc"
    /\ pages' = pages \o [i \in 1..tocPageCount |-> BlankPage]
    /\ pageMeta' = pageMeta \o [i \in 1..tocPageCount |-> Meta(Len(pages) + i, TocRole, NoTitle)]
    /\ tocPages' = [i \in 1..tocPageCount |-> [page |-> Len(pages) + i, nextY |-> TocFirstRowY]]
    /\ pc' = "gallery"
    /\ UNCHANGED <<restVars, inputs, sub, tocEntries, state, chapterVars, galleryVars, finishVars,
                   embedVars, chapLog, lastDraws>>

\* --- Optional Image Gallery ---
galleryCardWidth == (contentWidth - Pt(18)) \div 2

GalleryDrawHeight(im) == ScaledHeight(im, galleryCardWidth, (pageHeight * 35) \div 100)

GallerySkip ==
    /\ pc = "gallery"
    /\ galleryImages = <<>>
    /\ pc' = "chapterLoop"
    /\ UNCHANGED <<restVars, inputs, sub, pages, pageMeta, tocEntries, tocPages, state, chapterVars,
                   galleryVars, finishVars, embedVars, chapLog, lastDraws>>

GalleryBegin ==
    /\ pc = "gallery"
    /\ galleryImages # <<>>
    /\ pages' = Append(pages, BlankPage)
    /\ pageMeta' = Append(pageMeta, Meta(Len(pages) + 1, "gallery", NoTitle))
    /\ gallery' = [page |-> Len(pages) + 1,
                   y |-> pageHeight - config.margins.top - config.headingSize * 14000,
                   rowMaxHeight |-> 0]
    /\ galleryPos' = 1
    /\ pc' = "galleryLoop"
    /\ UNCHANGED <<restVars, inputs, sub, tocEntries, tocPages, state, chapterVars, finishVars,
                   embedVars, chapLog, lastDraws>>

\* one iteration of the gallery loop (index = galleryPos - 1)
GalleryImage ==
    /\ pc = "galleryLoop"
    /\ galleryPos <= Len(galleryImages)
    /\ LET asset == galleryImages[galleryPos]
           drawHeight == GalleryDrawHeight(asset)
           columnIndex == (galleryPos - 1) % 2
           newPage == columnIndex = 0 /\ gallery.y - drawHeight - Pt(50) < config.margins.bottom
           galleryY == IF newPage THEN pageHeight - config.margins.top ELSE gallery.y
           rowMax == Max(gallery.rowMaxHeight, drawHeight)
           rowEnds == columnIndex = 1 \/ galleryPos = Len(galleryImages)
           embedded == Embedding(<<asset>>, embeddedImageCache, embedCalls)
       IN /\ ~embedded.threw
          /\ embeddedImageCache' = embedded.cache
          /\ embedCalls' = embedded.calls
          /\ pages' = IF newPage THEN Append(pages, BlankPage) ELSE pages
          /\ pageMeta' = IF newPage
                         THEN Append(pageMeta, Meta(Len(pages) + 1, "gallery", NoTitle))
                         ELSE pageMeta
          /\ gallery' = [page |-> IF newPage THEN Len(pages) + 1 ELSE gallery.page,
                         y |-> IF rowEnds THEN galleryY - (rowMax + Pt(80)) ELSE galleryY,
                         rowMaxHeight |-> IF rowEnds THEN 0 ELSE rowMax]
    /\ galleryPos' = galleryPos + 1
    /\ UNCHANGED <<restVars, inputs, pc, sub, tocEntries, tocPages, state, chapterVars, finishVars,
                   chapLog, lastDraws>>

GalleryDone ==
    /\ pc = "galleryLoop"
    /\ galleryPos > Len(galleryImages)
    /\ pc' = "chapterLoop"
    /\ UNCHANGED <<restVars, inputs, sub, pages, pageMeta, tocEntries, tocPages, state, chapterVars,
                   galleryVars, finishVars, embedVars, chapLog, lastDraws>>

\* ------------------------------------------------------------------------
\* Chapter rendering helpers
\* ------------------------------------------------------------------------
\* variant: the title banner is drawn whatever isFirstPage says
ChapterPageAlwaysWithBanner(chapterIndex, isFirstPage) ==
    [label |-> chapterIndex, banner |-> TRUE, footer |-> 0, toc |-> <<>>]

\* chapterPageFactory: the page it adds (accent strip and chapter label on
\* every page, full title banner with rule on the first page only)
ChapterPage(chapterIndex, isFirstPage) ==
    [label |-> chapterIndex, banner |-> isFirstPage, footer |-> 0, toc |-> <<>>]

\* chapterPageFactory: bodyStartY of the page it returns
BodyStartY(titleLines, isFirstPage) ==
    IF isFirstPage
    THEN (pageHeight - config.margins.top - Pt(32))
         - titleLines * (config.headingSize * 12600) - Pt(28) - Pt(24)
    ELSE pageHeight - config.margins.top - Pt(24)

\* variant: the top margin is not subtracted
continuationStartYWithoutMargin == pageHeight - Pt(32)

continuationStartY == pageHeight - config.margins.top - Pt(32)

\* variant: the cover record is counted
ChapterPageNumberCountingCover(metaLength) == Max(1, metaLength)

\* variant: computed as if the chapter's first page were not registered yet
ChapterPageNumberBeforeRegister(metaLength) == Max(1, metaLength - coverPageCount - 1)

ChapterPageNumber(metaLength) == Max(1, metaLength - coverPageCount)

\* variant: the test ignores the height asked for
NeedsNewPageIgnoringNeeded(y, needed) == y < config.margins.bottom

\* the test of ensureSpace
NeedsNewPage(y, needed) == y - needed < config.margins.bottom

\* variant: only the fixed allowance is asked for
ImageNeededAllowanceOnly(drawHeight) == Pt(40)

\* the amount drawChapterImage asks ensureSpace for
ImageNeeded(drawHeight) == drawHeight + Pt(40)

ChapterDrawHeight(im) == ScaledHeight(im, contentWidth, (pageHeight * 35) \div 100)

\* variant: the midpoint rounded up
middleTriggerCeil(total) == Max(1, CeilDiv(total, 2))

middleTrigger(total) == Max(1, total \div 2)

chapter == book[chPos]

totalBlocks == Len(chapter.blocks)

HasImages(ch) == chapterImageMap(ch.index) # <<>>

\* variant: a chapter with blank text is skipped whatever images it has
SkipsChapterIgnoringImages(ch) ==
    \/ ch.blankText
    \/ ch.blocks = <<>> /\ ~HasImages(ch)

\* the two `continue` guards at the head of the chapter loop
SkipsChapter(ch) ==
    \/ ch.blankText /\ ~HasImages(ch)
    \/ ch.blocks = <<>> /\ ~HasImages(ch)

\* variant: the continuation page is made but the cursor is not moved to it
EnsureSpaceKeepingCursor(needed) ==
    IF NeedsNewPage(state.y, needed)
    THEN /\ pages' = Append(pages, ChapterPage(chapter.index, FALSE))
         /\ pageMeta' = Append(pageMeta, Meta(Len(pages) + 1, "chapter", chapter.title))
         /\ state' = [state EXCEPT !.page = Len(pages) + 1]
    ELSE UNCHANGED <<pages, pageMeta, state>>

\* ensureSpace(needed): a continuation page when the room is insufficient
EnsureSpace(needed) ==
    IF NeedsNewPage(state.y, needed)
    THEN /\ pages' = Append(pages, ChapterPage(chapter.index, FALSE))
         /\ pageMeta' = Append(pageMeta, Meta(Len(pages) + 1, "chapter", chapter.title))
         /\ state' = [page |-> Len(pages) + 1, y |-> continuationStartY]
    ELSE UNCHANGED <<pages, pageMeta, state>>

ChaptersDone ==
    /\ pc = "chapterLoop"
    /\ chPos > Len(book)
    /\ pc' = "tocFill"
    /\ UNCHANGED <<restVars, inputs, sub, pages, pageMeta, tocEntries, tocPages, state, chapterVars,
                   galleryVars, finishVars, embedVars, chapLog, lastDraws>>

ChapterSkip ==
    /\ pc = "chapterLoop"
    /\ chPos <= Len(book)
    /\ SkipsChapter(chapter)
    /\ chPos' = chPos + 1
    /\ UNCHANGED <<restVars, inputs, pc, sub, pages, pageMeta, tocEntries, tocPages, state, imgPos,
                   blockIndex, unitIndex, middleInserted, ret, galleryVars, finishVars,
                   embedVars, chapLog, lastDraws>>

\* first page of a chapter and its table-of-contents entry
ChapterBegin ==
    /\ pc = "chapterLoop"
    /\ chPos <= Len(book)
    /\ ~SkipsChapter(chapter)
    /\ pages' = Append(pages, ChapterPage(chapter.index, TRUE))
    /\ pageMeta' = Append(pageMeta, Meta(Len(pages) + 1, "chapter", chapter.title))
    /\ state' = [page |-> Len(pages) + 1, y |-> BodyStartY(chapter.titleLines, TRUE)]
    /\ tocEntries' = Append(tocEntries,
                            [index |-> chapter.index, title |-> chapter.title,
                             pageNumber |-> ChapterPageNumber(Len(pageMeta'))])
    /\ imgPos' = 1
    /\ blockIndex' = 0
    /\ unitIndex' = 1
    /\ middleInserted' = FALSE
    /\ ret' = "blockLoop"
    /\ chapLog' = <<>>
    /\ pc' = "startImages"
    /\ UNCHANGED <<restVars, inputs, sub, tocPages, chPos, galleryVars, finishVars,
                   embedVars, lastDraws>>

\* --- drawImages(startImages | middleImages | endImages) ---
ImagePhases == {"startImages", "middleImages", "endImages"}

PhaseAnchor ==
    CASE pc = "startImages" -> "start"
      [] pc = "middleImages" -> "middle"
      [] OTHER -> "end"

CurrentImages == AnchorImages(chapter.index, PhaseAnchor)

\* drawChapterImage up to and including its ensureSpace call
ImageEnsureSpace ==
    /\ pc \in ImagePhases
    /\ sub = "ensure"
    /\ imgPos <= Len(CurrentImages)
    /\ LET asset == CurrentImages[imgPos]
           embedded == Embedding(<<asset>>, embeddedImageCache, embedCalls)
       IN /\ ~embedded.threw
          /\ embeddedImageCache' = embedded.cache
          /\ embedCalls' = embedded.calls
          /\ EnsureSpace(ImageNeeded(ChapterDrawHeight(asset)))
    /\ sub' = "draw"
    /\ UNCHANGED <<restVars, inputs, pc, tocEntries, tocPages, chapterVars, galleryVars, finishVars,
                   chapLog, lastDraws>>

\* drawChapterImage after ensureSpace: the image, its caption, the cursor
ImageDraw ==
    /\ pc \in ImagePhases
    /\ sub = "draw"
    /\ LET asset == CurrentImages[imgPos]
           drawHeight == ChapterDrawHeight(asset)
           captionY == state.y - (drawHeight + Pt(16))
       IN /\ lastDraws' =
                { [kind |-> "image", page |-> state.page, y |-> state.y - drawHeight,
                   height |-> drawHeight] }
                \cup (IF asset.caption
                      THEN { [kind |-> "caption", page |-> state.page, y |-> captionY,
                              height |-> 0] }
                      ELSE {})
          /\ state' = [state EXCEPT !.y = captionY
                                          - (IF asset.caption THEN lineHeight ELSE 0)
                                          - paragraphSpacing \div 2]
          /\ chapLog' = Append(chapLog, [ev |-> "image", n |-> asset.id, anchor |-> PhaseAnchor])
    /\ imgPos' = imgPos + 1
    /\ sub' = "ensure"
    /\ UNCHANGED <<restVars, inputs, pc, pages, pageMeta, tocEntries, tocPages, chPos, blockIndex,
                   unitIndex, middleInserted, ret, galleryVars, finishVars,
                   embedVars>>

\* the statement after each drawImages call
ImagesDone ==
    /\ pc \in ImagePhases
    /\ sub = "ensure"
    /\ imgPos > Len(CurrentImages)
    /\ imgPos' = 1
    /\ CASE pc = "startImages" -> pc' = "blockLoop" /\ UNCHANGED chPos
         [] pc = "middleImages" -> pc' = ret /\ UNCHANGED chPos
         [] OTHER -> pc' = "chapterLoop" /\ chPos' = chPos + 1
    /\ UNCHANGED <<restVars, inputs, sub, pages, pageMeta, tocEntries, tocPages, state, blockIndex,
                   unitIndex, middleInserted, ret, galleryVars, finishVars,
                   embedVars, chapLog, lastDraws>>

\* --- the block loop ---
ItemUnits(n) == [i \in 1..n |-> [kind |-> "line", first |-> i = 1, last |-> i = n]]

RECURSIVE FlattenItems(_)
FlattenItems(items) ==
    IF items = <<>> THEN <<>> ELSE ItemUnits(Head(items)) \o FlattenItems(Tail(items))

\* the drawing steps of a block: one for a heading, one per wrapped line of
\* each item otherwise (drawRichParagraph returns at once on zero lines)
Units(block) ==
    IF block.kind = "heading"
    THEN << [kind |-> "heading", first |-> TRUE, last |-> TRUE] >>
    ELSE FlattenItems(block.items)

headingSize(block) ==
    IF block.level <= 2 THEN config.headingSize * Pt(1) ELSE config.headingSize * 9000

\* headingSize * 1.3
HeadingAdvance(block) ==
    IF block.level <= 2 THEN config.headingSize * 13000 ELSE config.headingSize * 11700

spacingBottom(block) ==
    IF block.kind = "paragraph" THEN paragraphSpacing ELSE paragraphSpacing \div 2

UnitNeeded(block, unit) ==
    IF unit.kind = "heading" THEN headingSize(block) * 2 ELSE lineHeight

\* how far one drawing step moves the cursor down
UnitAdvance(block, unit) ==
    IF unit.kind = "heading"
    THEN HeadingAdvance(block) + paragraphSpacing \div 2
    ELSE lineHeight + (IF unit.last THEN spacingBottom(block) ELSE 0)

currentBlock == chapter.blocks[blockIndex + 1]

BlockBegin ==
    /\ pc = "blockLoop"
    /\ blockIndex < totalBlocks
    /\ unitIndex' = 1
    /\ chapLog' = Append(chapLog, [ev |-> "block", n |-> blockIndex + 1, anchor |-> "none"])
    /\ pc' = "block"
    /\ UNCHANGED <<restVars, inputs, sub, pages, pageMeta, tocEntries, tocPages, state, chPos, imgPos,
                   blockIndex, middleInserted, ret, galleryVars, finishVars,
                   embedVars, lastDraws>>

BlockEnsureSpace ==
    /\ pc = "block"
    /\ sub = "ensure"
    /\ unitIndex <= Len(Units(currentBlock))
    /\ EnsureSpace(UnitNeeded(currentBlock, Units(currentBlock)[unitIndex]))
    /\ sub' = "draw"
    /\ UNCHANGED <<restVars, inputs, pc, tocEntries, tocPages, chapterVars, galleryVars, finishVars,
                   embedVars, chapLog, lastDraws>>

BlockDraw ==
    /\ pc = "block"
    /\ sub = "draw"
    /\ LET unit == Units(currentBlock)[unitIndex]
       IN /\ lastDraws' =
                { [kind |-> unit.kind, page |-> state.page, y |-> state.y, height |-> 0] }
                \cup (IF currentBlock.kind = "list" /\ unit.first
                      THEN { [kind |-> "bullet", page |-> state.page, y |-> state.y,
                              height |-> 0] }
                      ELSE {})
          /\ state' = [state EXCEPT !.y = state.y - UnitAdvance(currentBlock, unit)]
    /\ unitIndex' = unitIndex + 1
    /\ sub' = "ensure"
    /\ UNCHANGED <<restVars, inputs, pc, pages, pageMeta, tocEntries, tocPages, chPos, imgPos,
                   blockIndex, middleInserted, ret, galleryVars, finishVars,
                   embedVars, chapLog>>

\* end of one iteration of the block loop: the middle-image check
BlockEnd ==
    /\ pc = "block"
    /\ sub = "ensure"
    /\ unitIndex > Len(Units(currentBlock))
    /\ blockIndex' = blockIndex + 1
    /\ IF ~middleInserted /\ blockIndex + 1 >= middleTrigger(totalBlocks)
       THEN /\ middleInserted' = TRUE
            /\ imgPos' = 1
            /\ ret' = "blockLoop"
            /\ pc' = "middleImages"
       ELSE /\ pc' = "blockLoop"
            /\ UNCHANGED <<middleInserted, imgPos, ret>>
    /\ UNCHANGED <<restVars, inputs, sub, pages, pageMeta, tocEntries, tocPages, state, chPos,
                   unitIndex, galleryVars, finishVars, embedVars, chapLog,
                   lastDraws>>

\* variant: the middle images are drawn after the loop whatever the flag
AfterBlocksIgnoringFlag ==
    /\ pc = "blockLoop"
    /\ blockIndex >= totalBlocks
    /\ imgPos' = 1
    /\ pc' = "middleImages"
    /\ ret' = "endImages"
    /\ UNCHANGED <<restVars, inputs, sub, pages, pageMeta, tocEntries, tocPages, state, chPos,
                   blockIndex, unitIndex, middleInserted, galleryVars, finishVars,
                   embedVars, chapLog, lastDraws>>

\* after the block loop: middle images not drawn yet, then the end images
AfterBlocks ==
    /\ pc = "blockLoop"
    /\ blockIndex >= totalBlocks
    /\ imgPos' = 1
    /\ IF ~middleInserted
       THEN pc' = "middleImages" /\ ret' = "endImages"
       ELSE pc' = "endImages" /\ UNCHANGED ret
    /\ UNCHANGED <<restVars, inputs, sub, pages, pageMeta, tocEntries, tocPages, state, chPos,
                   blockIndex, unitIndex, middleInserted, galleryVars, finishVars,
                   embedVars, chapLog, lastDraws>>

\* ------------------------------------------------------------------------
\* renderTableOfContents: one loop iteration per recorded entry
\* ------------------------------------------------------------------------
\* the page (0-based index) the next entry goes to
TocTargetIndex ==
    IF tocPages[tocPageIndex + 1].nextY < config.margins.bottom + lineHeight
    THEN tocPageIndex + 1
    ELSE tocPageIndex

TocDrawEntry ==
    /\ pc = "tocFill"
    /\ tocPos <= Len(tocEntries)
    /\ TocTargetIndex + 1 <= Len(tocPages)
    /\ LET i == TocTargetIndex + 1
           p == tocPages[i].page
       IN /\ pages' = [pages EXCEPT ![p].toc = Append(@, tocEntries[tocPos])]
          /\ tocPages' = [tocPages EXCEPT ![i].nextY = @ - lineHeight]
    /\ tocPageIndex' = TocTargetIndex
    /\ tocPos' = tocPos + 1
    /\ UNCHANGED <<restVars, inputs, pc, sub, pageMeta, tocEntries, state, chapterVars, galleryVars,
                   footerPos, numberedPageCounter, embedVars, chapLog, lastDraws>>

\* variant: the fill pass makes one more placeholder page when it runs out
TocOverflowAddingPage ==
    /\ pc = "tocFill"
    /\ tocPos <= Len(tocEntries)
    /\ TocTargetIndex + 1 > Len(tocPages)
    /\ pages' = Append(pages, BlankPage)
    /\ pageMeta' = Append(pageMeta, Meta(Len(pages) + 1, TocRole, NoTitle))
    /\ tocPages' = Append(tocPages, [page |-> Len(pages) + 1, nextY |-> TocFirstRowY])
    /\ UNCHANGED <<restVars, inputs, pc, sub, tocEntries, state, chapterVars, galleryVars,
                   finishVars, embedVars, chapLog, lastDraws>>

\* `if (!currentPage) break;` : the remaining entries are not drawn
TocOverflow ==
    /\ pc = "tocFill"
    /\ tocPos <= Len(tocEntries)
    /\ TocTargetIndex + 1 > Len(tocPages)
    /\ pc' = "footer"
    /\ UNCHANGED <<restVars, inputs, sub, pages, pageMeta, tocEntries, tocPages, state, chapterVars,
                   galleryVars, finishVars, embedVars, chapLog, lastDraws>>

TocFillDone ==
    /\ pc = "tocFill"
    /\ tocPos > Len(tocEntries)
    /\ pc' = "footer"
    /\ UNCHANGED <<restVars, inputs, sub, pages, pageMeta, tocEntries, tocPages, state, chapterVars,
                   galleryVars, finishVars, embedVars, chapLog, lastDraws>>

\* ------------------------------------------------------------------------
\* Footer pass: pageMeta.forEach
\* ------------------------------------------------------------------------
FooterDisabled ==
    /\ pc = "footer"
    /\ ~config.pageNumbering
    /\ pc' = "done"
    /\ UNCHANGED <<restVars, inputs, sub, pages, pageMeta, tocEntries, tocPages, state, chapterVars,
                   galleryVars, finishVars, embedVars, chapLog, lastDraws>>

\* variant: the footer callback skips no record
FooterSkipsNone(meta) == meta.role = "none"

\* whether the footer callback returns early without stamping
FooterSkips(meta) == meta.role = "cover"

FooterStamp ==
    /\ pc = "footer"
    /\ config.pageNumbering
    /\ footerPos <= Len(pageMeta)
    /\ LET meta == pageMeta[footerPos]
       IN IF FooterSkips(meta)
          THEN UNCHANGED <<pages, numberedPageCounter>>
          ELSE /\ numberedPageCounter' = numberedPageCounter + 1
               /\ pages' = [pages EXCEPT ![meta.page].footer = numberedPageCounter + 1]
    /\ footerPos' = footerPos + 1
    /\ UNCHANGED <<restVars, inputs, pc, sub, pageMeta, tocEntries, tocPages, state, chapterVars,
                   galleryVars, tocPos, tocPageIndex, embedVars, chapLog, lastDraws>>

FooterDone ==
    /\ pc = "footer"
    /\ config.pageNumbering
    /\ footerPos > Len(pageMeta)
    /\ pc' = "done"
    /\ UNCHANGED <<restVars, inputs, sub, pages, pageMeta, tocEntries, tocPages, state, chapterVars,
                   galleryVars, finishVars, embedVars, chapLog, lastDraws>>

\* --- A second build of the same book after one image was removed ---
\* an included chapter image whose chapterIndex is the index of no chapter
IsOrphan(im) ==
    /\ im.include
    /\ im.placement.type = "chapter"
    /\ \A j \in DOMAIN book : book[j].index # im.placement.chapterIndex

\* handleRemoveImage(id) followed by a new call of buildBookPdf; the image
\* removed is drawn from the orphans, and the book is rebuilt once
RebuildWithoutImage ==
    /\ pc = "done"
    /\ ~previous.built
    /\ \E k \in DOMAIN images :
          /\ IsOrphan(images[k])
          /\ images' = SelectSeq(images, LAMBDA im : im.id # images[k].id)
    /\ previous' = [built |-> TRUE, pages |-> pages, pageMeta |-> pageMeta,
                    tocEntries |-> tocEntries]
    /\ pc' = "cover"
    /\ sub' = "ensure"
    /\ pages' = <<>>
    /\ pageMeta' = <<>>
    /\ tocEntries' = <<>>
    /\ tocPages' = <<>>
    /\ state' = [page |-> 0, y |-> 0]
    /\ chPos' = 1
    /\ imgPos' = 1
    /\ blockIndex' = 0
    /\ unitIndex' = 1
    /\ middleInserted' = FALSE
    /\ ret' = "blockLoop"
    /\ galleryPos' = 1
    /\ gallery' = [page |-> 0, y |-> 0, rowMaxHeight |-> 0]
    /\ tocPos' = 1
    /\ tocPageIndex' = 0
    /\ footerPos' = 1
    /\ numberedPageCounter' = 0
    /\ embeddedImageCache' = {}
    /\ embedCalls' = <<>>
    /\ chapLog' = <<>>
    /\ lastDraws' = {}
    /\ UNCHANGED <<book, config, pureVars>>

\* --- An exception of embedUserImage ---
\* the assets the step about to run passes to getEmbeddedImageForAsset
RequestedAssets ==
    CASE pc = "cover" -> CoverRequests
      [] pc = "galleryLoop" /\ galleryPos <= Len(galleryImages) -> <<galleryImages[galleryPos]>>
      [] pc \in ImagePhases /\ sub = "ensure" /\ imgPos <= Len(CurrentImages) ->
            <<CurrentImages[imgPos]>>
      [] OTHER -> <<>>

\* the step in which embedUserImage throws: nothing catches the exception
\* inside buildBookPdf, so the promise is rejected and the document, with
\* the cover page when the step was the cover step, is dropped
BuildRejects ==
    /\ pc \in {"cover", "galleryLoop"} \cup ImagePhases
    /\ LET embedded == Embedding(RequestedAssets, embeddedImageCache, embedCalls)
       IN /\ embedded.threw
          /\ embeddedImageCache' = embedded.cache
          /\ embedCalls' = embedded.calls
    /\ pages' = IF pc = "cover" THEN Append(pages, BlankPage) ELSE pages
    /\ pageMeta' = IF pc = "cover"
                   THEN Append(pageMeta, Meta(Len(pages) + 1, "cover", NoTitle))
                   ELSE pageMeta
    /\ pc' = "rejected"
    /\ UNCHANGED <<restVars, inputs, sub, tocEntries, tocPages, state, chapterVars, galleryVars,
                   finishVars, chapLog, lastDraws>>

Next ==
    \/ CoverPage
    \/ ReserveTocPages
    \/ GallerySkip
    \/ GalleryBegin
    \/ GalleryImage
    \/ GalleryDone
    \/ ChaptersDone
    \/ ChapterSkip
    \/ ChapterBegin
    \/ ImageEnsureSpace
    \/ ImageDraw
    \/ ImagesDone
    \/ BlockBegin
    \/ BlockEnsureSpace
    \/ BlockDraw
    \/ BlockEnd
    \/ AfterBlocks
    \/ TocDrawEntry
    \/ TocOverflow
    \/ TocFillDone
    \/ FooterDisabled
    \/ FooterStamp
    \/ FooterDone
    \/ BuildRejects
    \/ RebuildWithoutImage

Spec == Init /\ [][Next]_vars

\* ------------------------------------------------------------------------
\* wrapTokens: the greedy line breaker
\* ------------------------------------------------------------------------
MaxTokens == 4

\* no build is running while a pure function is exercised on its own
BuildIdle ==
    /\ config = DEFAULT_PDF_CONFIG
    /\ book = <<>>
    /\ images = <<>>
    /\ pc = "idle"
    /\ FreshBuild

\* StyledToken: text, measured width, whitespace flag
SpaceToken == [text |-> " ", width |-> 1, isSpace |-> TRUE]

WordToken(text, width) == [text |-> text, width |-> width, isSpace |-> FALSE]

TokenPool == { SpaceToken, WordToken("a", 1), WordToken("bb", 2), WordToken("wwwww", 5) }

\* maxWidth as drawRichParagraph passes it, in the width unit of the tokens
WrapWidths == { 3, 4 }

TokenLists == UNION { [1..n -> TokenPool] : n \in 0..MaxTokens }

\* the token object at position p of the argument, as the lines hold it
TokenRef(p) ==
    [pos |-> p, text |-> wrap.tokens[p].text, width |-> wrap.tokens[p].width,
     isSpace |-> wrap.tokens[p].isSpace]

\* pushLine: end index after dropping trailing whitespace tokens
RECURSIVE TrimmedEnd(_)
TrimmedEnd(line) ==
    IF line # <<>> /\ line[Len(line)].isSpace
    THEN TrimmedEnd(SubSeq(line, 1, Len(line) - 1))
    ELSE Len(line)

\* variant: the line is pushed with its trailing whitespace tokens
pushLineUntrimmed(lines, currentLine) ==
    IF currentLine = <<>> THEN lines ELSE Append(lines, currentLine)

pushLine(lines, currentLine) ==
    IF currentLine = <<>> THEN lines
    ELSE IF TrimmedEnd(currentLine) > 0
         THEN Append(lines, SubSeq(currentLine, 1, TrimmedEnd(currentLine)))
         ELSE lines

\* variant: the break test looks at the line before the token is added
OverflowsBeforeToken(lineWidth, token, maxWidth) == lineWidth > maxWidth

\* variant: the break test looks at the token alone
OverflowsTokenAlone(lineWidth, token, maxWidth) == token.width > maxWidth

\* lineWidth + token.width > maxWidth
Overflows(lineWidth, token, maxWidth) == lineWidth + token.width > maxWidth

WrapInit ==
    /\ BuildIdle
    /\ OthersIdle("wrap")
    /\ \E ts \in TokenLists, w \in WrapWidths :
          wrap = [at |-> "loop", tokens |-> ts, maxWidth |-> w, pos |-> 1,
                  currentLine |-> <<>>, lineWidth |-> 0, lines |-> <<>>]

\* variant: whatever token comes first on a line is passed over
SkipsAnyTokenOnEmptyLine(token, line) == line = <<>>

\* `if (token.isSpace && !currentLine.length) continue;`
SkipsToken(token, line) == token.isSpace /\ line = <<>>

\* one iteration of `for (const token of tokens)`
WrapToken ==
    /\ wrap.at = "loop"
    /\ wrap.pos <= Len(wrap.tokens)
    /\ LET token == wrap.tokens[wrap.pos]
           breaks == /\ ~token.isSpace
                     /\ Overflows(wrap.lineWidth, token, wrap.maxWidth)
                     /\ wrap.currentLine # <<>>
           lines1 == IF breaks THEN pushLine(wrap.lines, wrap.currentLine) ELSE wrap.lines
           line1 == IF breaks THEN <<>> ELSE wrap.currentLine
           width1 == IF breaks THEN 0 ELSE wrap.lineWidth
           skipped == SkipsToken(token, line1)
       IN wrap' = [wrap EXCEPT
                     !.lines = lines1,
                     !.currentLine = IF skipped THEN line1
                                     ELSE Append(line1, TokenRef(wrap.pos)),
                     !.lineWidth = IF skipped THEN width1 ELSE width1 + token.width,
                     !.pos = @ + 1]
    /\ UNCHANGED buildVars
    /\ OthersUnchanged("wrap")

\* the final pushLine() and the return
WrapReturn ==
    /\ wrap.at = "loop"
    /\ wrap.pos > Len(wrap.tokens)
    /\ wrap' = [wrap EXCEPT !.lines = pushLine(wrap.lines, wrap.currentLine),
                            !.at = "done"]
    /\ UNCHANGED buildVars
    /\ OthersUnchanged("wrap")

WrapNext ==
    \/ WrapToken
    \/ WrapReturn

WrapSpec == WrapInit /\ [][WrapNext]_vars

\* ------------------------------------------------------------------------
\* markdownParser: strings are sequences of one-character strings
\* ------------------------------------------------------------------------
MaxTextLines == 3

\* the grave accent, spelled out
Backtick == "backtick"

\* UTF-16 code units of the characters that occur in the texts
CharCode(c) ==
    CASE c = "\t" -> 9
      [] c = "\n" -> 10
      [] c = "\r" -> 13
      [] c = " " -> 32
      [] c = "#" -> 35
      [] c = "*" -> 42
      [] c = "+" -> 43
      [] c = "-" -> 45
      [] c = ">" -> 62
      [] c = "_" -> 95
      [] c = Backtick -> 96
      [] c = "a" -> 97
      [] c = "b" -> 98

\* a character class range [lo-hi]
InRange(c, lo, hi) == CharCode(lo) <= CharCode(c) /\ CharCode(c) <= CharCode(hi)

\* variant: only the blank counts as whitespace
IsSpaceBlankOnly(c) == c = " "

\* \s
IsSpace(c) == c \in {" ", "\t", "\n", "\r"}

\* . (any character but a line terminator)
IsDot(c) == c \notin {"\n", "\r"}

Drop(str, k) == SubSeq(str, k + 1, Len(str))

LeadingSpaces(str) == Cardinality({ n \in 1..Len(str) : \A i \in 1..n : IsSpace(str[i]) })

TrailingSpaces(str) ==
    Cardinality({ n \in 1..Len(str) : \A i \in (Len(str) - n + 1)..Len(str) : IsSpace(str[i]) })

\* String.prototype.trim
Trim(str) == SubSeq(str, LeadingSpaces(str) + 1, Len(str) - TrailingSpaces(str))

\* replace(/\s+/g, ' ')
RECURSIVE CollapseWhitespace(_)
CollapseWhitespace(str) ==
    IF str = <<>> THEN <<>>
    ELSE IF IsSpace(str[1])
         THEN <<" ">> \o CollapseWhitespace(Drop(str, LeadingSpaces(str)))
         ELSE <<str[1]>> \o CollapseWhitespace(Tail(str))

normalizeWhitespace(value) == Trim(CollapseWhitespace(value))

\* replace(/\r\n/g, '\n')
RECURSIVE ReplaceCRLF(_)
ReplaceCRLF(str) ==
    IF str = <<>> THEN <<>>
    ELSE IF Len(str) >= 2 /\ str[1] = "\r" /\ str[2] = "\n"
         THEN <<"\n">> \o ReplaceCRLF(Drop(str, 2))
         ELSE <<str[1]>> \o ReplaceCRLF(Tail(str))

\* split('\n')
RECURSIVE Split(_)
Split(str) ==
    IF \E n \in DOMAIN str : str[n] = "\n"
    THEN LET n == CHOOSE n \in DOMAIN str :
                      str[n] = "\n" /\ \A m \in 1..(n - 1) : str[m] # "\n"
         IN <<SubSeq(str, 1, n - 1)>> \o Split(Drop(str, n))
    ELSE <<str>>

\* variant: the buffered lines are concatenated without a separator
RECURSIVE JoinWithoutSeparator(_, _)
JoinWithoutSeparator(parts, sep) ==
    IF parts = <<>> THEN <<>> ELSE Head(parts) \o JoinWithoutSeparator(Tail(parts), sep)

\* Array.prototype.join
RECURSIVE Join(_, _)
Join(parts, sep) ==
    IF parts = <<>> THEN <<>>
    ELSE IF Len(parts) = 1 THEN parts[1]
         ELSE parts[1] \o sep \o Join(Tail(parts), sep)

NoMatch == [ok |-> FALSE, level |-> 0, text |-> <<>>]

\* the tail \s*(.+)$ or \s+(.+)$ of the three line patterns: the whitespace
\* run is as long as the rest of the pattern allows
RestMatch(rest, minSpaces) ==
    LET cands == { j \in minSpaces..LeadingSpaces(rest) :
                      /\ Len(rest) > j
                      /\ \A i \in (j + 1)..Len(rest) : IsDot(rest[i]) }
    IN IF cands = {} THEN NoMatch
       ELSE [ok |-> TRUE, level |-> 0,
             text |-> Drop(rest, CHOOSE j \in cands : \A k \in cands : k <= j)]

HashRun(str) == Cardinality({ n \in 1..Len(str) : \A i \in 1..n : str[i] = "#" })

\* variant: the '#' run is captured lazily
LazyHashes(ks) == CHOOSE k \in ks : \A m \in ks : k <= m

\* #{1,3} is greedy: the longest run that lets the rest match
GreedyHashes(ks) == CHOOSE k \in ks : \A m \in ks : m <= k

\* /^(#{1,3})\s*(.+)$/ : level is the length of group 1, text is group 2
headingPattern(str) ==
    LET ks == { k \in 1..3 : k <= HashRun(str) /\ RestMatch(Drop(str, k), 0).ok }
    IN IF ks = {} THEN NoMatch
       ELSE [RestMatch(Drop(str, GreedyHashes(ks)), 0) EXCEPT !.level = GreedyHashes(ks)]

\* the class [*-+] is the range from '*' to '+'
IsBulletMarker(c) == InRange(c, "*", "+")

\* /^[*-+]\s+(.+)$/
bulletPattern(str) ==
    IF str # <<>> /\ IsBulletMarker(str[1]) THEN RestMatch(Tail(str), 1) ELSE NoMatch

\* /^>\s*(.+)$/
blockquotePattern(str) ==
    IF str # <<>> /\ str[1] = ">" THEN RestMatch(Tail(str), 0) ELSE NoMatch

\* --- parseInlineSpans ---
Span(text, bold, italic) == [text |-> text, bold |-> bold, italic |-> italic]

\* length of the match of d{n}[^d]+d{n} at position i, or 0
Delimited(str, i, d, n) ==
    LET run == Cardinality({ r \in 1..(Len(str) - i - n + 1) :
                                \A q \in 0..(r - 1) : str[i + n + q] # d })
    IN IF /\ \A k \in 0..(n - 1) : i + k <= Len(str) /\ str[i + k] = d
          /\ run >= 1
          /\ \A k \in 0..(n - 1) :
                i + n + run + k <= Len(str) /\ str[i + n + run + k] = d
       THEN run + 2 * n
       ELSE 0

\* (\*\*[^*]+\*\*|__[^_]+__|\*[^*]+\*|_[^_]+_|`[^`]+`): the first
\* alternative that matches at position i decides the length
InlineMatchLength(str, i) ==
    LET alternatives == << Delimited(str, i, "*", 2), Delimited(str, i, "_", 2),
                           Delimited(str, i, "*", 1), Delimited(str, i, "_", 1),
                           Delimited(str, i, Backtick, 1) >>
        hits == { a \in 1..5 : alternatives[a] > 0 }
    IN IF hits = {} THEN 0 ELSE alternatives[CHOOSE a \in hits : \A b \in hits : a <= b]

StartsWith(str, prefix) == Len(str) >= Len(prefix) /\ SubSeq(str, 1, Len(prefix)) = prefix

\* variant: every match loses one character at each end
MatchSpanShortSlice(match) ==
    Span(SubSeq(match, 2, Len(match) - 1),
         StartsWith(match, <<"*", "*">>) \/ StartsWith(match, <<"_", "_">>),
         ~(StartsWith(match, <<"*", "*">>) \/ StartsWith(match, <<"_", "_">>))
            /\ (StartsWith(match, <<"*">>) \/ StartsWith(match, <<"_">>)))

\* the replace callback: the span a match becomes
MatchSpan(match) ==
    IF StartsWith(match, <<"*", "*">>) \/ StartsWith(match, <<"_", "_">>)
    THEN Span(SubSeq(match, 3, Len(match) - 2), TRUE, FALSE)
    ELSE IF StartsWith(match, <<"*">>) \/ StartsWith(match, <<"_">>)
         THEN Span(SubSeq(match, 2, Len(match) - 1), FALSE, TRUE)
         ELSE Span(SubSeq(match, 2, Len(match) - 1), FALSE, FALSE)

\* the global scan from position i (1-based) with lastIndex characters consumed
RECURSIVE ScanSpans(_, _, _)
ScanSpans(str, i, lastIndex) ==
    IF i > Len(str)
    THEN (IF lastIndex < Len(str) THEN <<Span(Drop(str, lastIndex), FALSE, FALSE)>> ELSE <<>>)
    ELSE IF InlineMatchLength(str, i) = 0
         THEN ScanSpans(str, i + 1, lastIndex)
         ELSE (IF i - 1 > lastIndex
               THEN <<Span(SubSeq(str, lastIndex + 1, i - 1), FALSE, FALSE)>>
               ELSE <<>>)
              \o <<MatchSpan(SubSeq(str, i, i + InlineMatchLength(str, i) - 1))>>
              \o ScanSpans(str, i + InlineMatchLength(str, i),
                           i + InlineMatchLength(str, i) - 1)

parseInlineSpans(text) ==
    [k \in DOMAIN ScanSpans(text, 1, 0) |->
        [ScanSpans(text, 1, 0)[k] EXCEPT !.text = CollapseWhitespace(@)]]

\* --- StructuredBlock ---
HeadingBlock(level, text) ==
    [kind |-> "heading", level |-> level, text |-> text, spans |-> <<>>, items |-> <<>>]

ParagraphBlock(spans) ==
    [kind |-> "paragraph", level |-> 0, text |-> <<>>, spans |-> spans, items |-> <<>>]

ListBlock(items) ==
    [kind |-> "list", level |-> 0, text |-> <<>>, spans |-> <<>>, items |-> items]

QuoteBlock(spans) ==
    [kind |-> "quote", level |-> 0, text |-> <<>>, spans |-> spans, items |-> <<>>]

\* --- inputs of parseMarkdownToBlocks ---
\* rawText absent at run time
Undefined == <<"undefined">>

LinePool ==
    { <<>>,
      <<" ", "\t">>,
      <<"a">>,
      <<" ", "b", " ", " ", "a", "\r">>,
      <<"#", " ", "a">>,
      <<"#", "#", "a">>,
      <<"#", "#", "#", "\t", "a", " ", "b">>,
      <<"#", "#", "#", "#", " ", "a">>,
      <<"*", " ", "a">>,
      <<"-", " ", "a">>,
      <<" ", "+", " ", " ", "b">>,
      <<">", " ", "a">>,
      <<"*", "*", "a", "*", "*", " ", "_", "b", "_">> }

RECURSIVE TextOf(_)
TextOf(ls) ==
    IF ls = <<>> THEN <<>>
    ELSE IF Len(ls) = 1 THEN ls[1]
         ELSE ls[1] \o <<"\n">> \o TextOf(Tail(ls))

RawTexts ==
    { Undefined } \cup { TextOf(ls) : ls \in UNION { [1..n -> LinePool] : n \in 0..MaxTextLines } }

\* rawText?.replace(/\r\n/g, '\n') ?? ''
Normalized(rawText) == IF rawText = Undefined THEN <<>> ELSE ReplaceCRLF(rawText)

\* Math.min(level, 3)
HeadingLevel(level) == Min(level, 3)

\* flushParagraph, on the parser state p; origin keeps, for every block,
\* the range of source lines (1-based) it was made from
flushParagraph(p) ==
    IF p.paragraphBuffer = <<>> THEN p
    ELSE LET paragraphText == normalizeWhitespace(Join(p.paragraphBuffer, <<" ">>))
         IN [p EXCEPT
               !.blocks = IF paragraphText # <<>>
                          THEN Append(@, ParagraphBlock(parseInlineSpans(paragraphText)))
                          ELSE @,
               !.origin = IF paragraphText # <<>>
                          THEN Append(@, [from |-> p.bufferFrom, to |-> p.i])
                          ELSE @,
               !.paragraphBuffer = <<>>]

ParseInit ==
    /\ BuildIdle
    /\ OthersIdle("parser")
    /\ \E rawText \in RawTexts :
          parser = [ParserIdle EXCEPT !.at = "call", !.rawText = rawText]

\* normalisation and split into lines
ParseBegin ==
    /\ parser.at = "call"
    /\ parser' = [parser EXCEPT !.lines = Split(Normalized(parser.rawText)), !.at = "loop"]
    /\ UNCHANGED buildVars
    /\ OthersUnchanged("parser")

InLoop == parser.at = "loop" /\ parser.i < Len(parser.lines)

\* lines[i].trim()
TrimmedLine(n) == Trim(parser.lines[n + 1])

\* if (!trimmed) { flushParagraph(); continue; }
ParseBlankLine ==
    /\ InLoop
    /\ TrimmedLine(parser.i) = <<>>
    /\ parser' = [flushParagraph(parser) EXCEPT !.i = @ + 1]
    /\ UNCHANGED buildVars
    /\ OthersUnchanged("parser")

ParseHeadingLine ==
    /\ InLoop
    /\ TrimmedLine(parser.i) # <<>>
    /\ headingPattern(TrimmedLine(parser.i)).ok
    /\ LET headingMatch == headingPattern(TrimmedLine(parser.i))
       IN parser' = [flushParagraph(parser) EXCEPT
                       !.blocks = Append(@, HeadingBlock(HeadingLevel(headingMatch.level),
                                                         Trim(headingMatch.text))),
                       !.origin = Append(@, [from |-> parser.i + 1, to |-> parser.i + 1]),
                       !.i = @ + 1]
    /\ UNCHANGED buildVars
    /\ OthersUnchanged("parser")

\* number of consecutive lines from 0-based index n on that match bulletPattern
RECURSIVE BulletRun(_)
BulletRun(n) ==
    IF n < Len(parser.lines) /\ bulletPattern(TrimmedLine(n)).ok
    THEN 1 + BulletRun(n + 1)
    ELSE 0

\* the list branch with its inner while loop
ParseBulletLines ==
    /\ InLoop
    /\ TrimmedLine(parser.i) # <<>>
    /\ ~headingPattern(TrimmedLine(parser.i)).ok
    /\ bulletPattern(TrimmedLine(parser.i)).ok
    /\ LET items == [k \in 1..BulletRun(parser.i) |->
                        parseInlineSpans(normalizeWhitespace(
                            bulletPattern(TrimmedLine(parser.i + k - 1)).text))]
       IN parser' = [flushParagraph(parser) EXCEPT
                       !.blocks = Append(@, ListBlock(items)),
                       !.origin = Append(@, [from |-> parser.i + 1,
                                             to |-> parser.i + BulletRun(parser.i)]),
                       !.i = @ + BulletRun(parser.i)]
    /\ UNCHANGED buildVars
    /\ OthersUnchanged("parser")

ParseQuoteLine ==
    /\ InLoop
    /\ TrimmedLine(parser.i) # <<>>
    /\ ~headingPattern(TrimmedLine(parser.i)).ok
    /\ ~bulletPattern(TrimmedLine(parser.i)).ok
    /\ blockquotePattern(TrimmedLine(parser.i)).ok
    /\ LET quoteMatch == blockquotePattern(TrimmedLine(parser.i))
       IN parser' = [flushParagraph(parser) EXCEPT
                       !.blocks = Append(@, QuoteBlock(parseInlineSpans(
                                               normalizeWhitespace(quoteMatch.text)))),
                       !.origin = Append(@, [from |-> parser.i + 1, to |-> parser.i + 1]),
                       !.i = @ + 1]
    /\ UNCHANGED buildVars
    /\ OthersUnchanged("parser")

\* paragraphBuffer.push(trimmed)
ParseTextLine ==
    /\ InLoop
    /\ TrimmedLine(parser.i) # <<>>
    /\ ~headingPattern(TrimmedLine(parser.i)).ok
    /\ ~bulletPattern(TrimmedLine(parser.i)).ok
    /\ ~blockquotePattern(TrimmedLine(parser.i)).ok
    /\ parser' = [parser EXCEPT
                    !.paragraphBuffer = Append(@, TrimmedLine(parser.i)),
                    !.bufferFrom = IF parser.paragraphBuffer = <<>> THEN parser.i + 1 ELSE @,
                    !.i = @ + 1]
    /\ UNCHANGED buildVars
    /\ OthersUnchanged("parser")

\* the final flushParagraph() and the return
ParseReturn ==
    /\ parser.at = "loop"
    /\ parser.i >= Len(parser.lines)
    /\ parser' = [flushParagraph(parser) EXCEPT !.at = "done"]
    /\ UNCHANGED buildVars
    /\ OthersUnchanged("parser")

ParseNext ==
    \/ ParseBegin
    \/ ParseBlankLine
    \/ ParseHeadingLine
    \/ ParseBulletLines
    \/ ParseQuoteLine
    \/ ParseTextLine
    \/ ParseReturn

ParseSpec == ParseInit /\ [][ParseNext]_vars

\* ------------------------------------------------------------------------
\* parseInlineSpans on its own
\* ------------------------------------------------------------------------
MaxInlineLength == 5

InlineChars == {"a", " ", "*", "_", Backtick}

InlineTexts == UNION { [1..n -> InlineChars] : n \in 0..MaxInlineLength }

InlineInit ==
    /\ BuildIdle
    /\ OthersIdle("inline")
    /\ \E text \in InlineTexts : inline = [at |-> "call", text |-> text, spans |-> <<>>]

InlineParse ==
    /\ inline.at = "call"
    /\ inline' = [inline EXCEPT !.spans = parseInlineSpans(inline.text), !.at = "done"]
    /\ UNCHANGED buildVars
    /\ OthersUnchanged("inline")

InlineNext == InlineParse

InlineSpec == InlineInit /\ [][InlineNext]_vars

\* ------------------------------------------------------------------------
\* stripLeadingChapterHeading (the same text in the PDF and the DOCX service)
\* ------------------------------------------------------------------------
MaxBlocks == 3

LowerLetters == <<"a", "b", "c", "d", "e", "f", "g", "h", "i", "j", "k", "l", "m", "n", "o", "p", "q", "r", "s", "t", "u", "v", "w", "x", "y", "z">>

UpperLetters == <<"A", "B", "C", "D", "E", "F", "G", "H", "I", "J", "K", "L", "M", "N", "O", "P", "Q", "R", "S", "T", "U", "V", "W", "X", "Y", "Z">>

Digits == {"0", "1", "2", "3", "4", "5", "6", "7", "8", "9"}

\* String.prototype.toLowerCase
ToLowerChar(c) ==
    IF \E k \in 1..26 : UpperLetters[k] = c
    THEN LowerLetters[CHOOSE k \in 1..26 : UpperLetters[k] = c]
    ELSE c

toLowerCase(str) == [k \in DOMAIN str |-> ToLowerChar(str[k])]

\* \d
IsDigit(c) == c \in Digits

\* [a-z0-9] under the i flag
IsAlnum(c) == IsDigit(c) \/ \E k \in 1..26 : LowerLetters[k] = ToLowerChar(c)

\* lengths of the greedy runs \s+, \d+ and [^a-z0-9]+ that start at position i
SpaceRun(str, i) ==
    Cardinality({ n \in 1..(Len(str) - i + 1) : \A j \in i..(i + n - 1) : IsSpace(str[j]) })

DigitRun(str, i) ==
    Cardinality({ n \in 1..(Len(str) - i + 1) : \A j \in i..(i + n - 1) : IsDigit(str[j]) })

NonAlnumRun(str, i) ==
    Cardinality({ n \in 1..(Len(str) - i + 1) : \A j \in i..(i + n - 1) : ~IsAlnum(str[j]) })

ChapterWord == <<"c", "h", "a", "p", "t", "e", "r">>

\* length of the match of /chapter\s+\d+[:\-]?/i at position i, 0 without a match
ChapterMatchLength(str, i) ==
    LET s == SpaceRun(str, i + 7)
        d == DigitRun(str, i + 7 + s)
        e == i + 7 + s + d
    IN  IF /\ i + 6 <= Len(str)
           /\ toLowerCase(SubSeq(str, i, i + 6)) = ChapterWord
           /\ s >= 1
           /\ d >= 1
        THEN 7 + s + d + (IF e <= Len(str) /\ str[e] \in {":", "-"} THEN 1 ELSE 0)
        ELSE 0

\* replace(/chapter\s+\d+[:\-]?/i, ''): the first match, wherever it is
RemoveChapterNumber(str) ==
    LET starts == { i \in 1..Len(str) : ChapterMatchLength(str, i) > 0 }
    IN  IF starts = {} THEN str
        ELSE LET i == CHOOSE x \in starts : \A y \in starts : x <= y
             IN  SubSeq(str, 1, i - 1) \o Drop(str, i - 1 + ChapterMatchLength(str, i))

\* replace(/[^a-z0-9]+/gi, ' ')
RECURSIVE ReplaceNonAlnum(_)
ReplaceNonAlnum(str) ==
    IF str = <<>> THEN <<>>
    ELSE IF ~IsAlnum(str[1])
         THEN <<" ">> \o ReplaceNonAlnum(Drop(str, NonAlnumRun(str, 1)))
         ELSE <<str[1]>> \o ReplaceNonAlnum(Tail(str))

normalizeForComparison(value) ==
    IF value = Undefined THEN <<>>
    ELSE toLowerCase(Trim(ReplaceNonAlnum(RemoveChapterNumber(value))))

spansToPlainText(spans) ==
    Trim(CollapseWhitespace(Join([k \in DOMAIN spans |-> spans[k].text], <<" ">>)))

\* variant: at most one leading block is examined
StripStartSingle(blocks, normalizedTitle, startIndex) ==
    IF /\ startIndex = 0
       /\ blocks # <<>>
       /\ blocks[1].kind \in {"heading", "paragraph"}
       /\ normalizeForComparison(IF blocks[1].kind = "heading" THEN blocks[1].text
                                 ELSE spansToPlainText(blocks[1].spans)) = normalizedTitle
    THEN 1
    ELSE startIndex

\* the while loop: the value of startIndex when it ends
RECURSIVE StripStart(_, _, _)
StripStart(blocks, normalizedTitle, startIndex) ==
    IF startIndex < Len(blocks)
    THEN LET block == blocks[startIndex + 1]
             candidate == IF block.kind = "heading" THEN block.text
                          ELSE spansToPlainText(block.spans)
         IN  IF block.kind \notin {"heading", "paragraph"} THEN startIndex
             ELSE IF normalizeForComparison(candidate) = normalizedTitle
                  THEN StripStart(blocks, normalizedTitle, startIndex + 1)
                  ELSE startIndex
    ELSE startIndex

stripLeadingChapterHeading(blocks, chapterTitle) ==
    LET normalizedTitle == normalizeForComparison(chapterTitle)
    IN  IF normalizedTitle = <<>> THEN blocks
        ELSE LET startIndex == StripStart(blocks, normalizedTitle, 0)
             IN  IF startIndex = 0 THEN blocks ELSE Drop(blocks, startIndex)

\* --- inputs of stripLeadingChapterHeading ---
TitlePool ==
    { <<"C", "h", "a", "p", "t", "e", "r", " ", "1", ":", " ", "G", "o">>,
      <<"G", "o">>,
      <<"C", "h", "a", "p", "t", "e", "r", " ", "2">>,
      <<"A", "-", "b">>,
      <<>>,
      Undefined }

BlockPool ==
    { HeadingBlock(2, <<"G", "o">>),
      HeadingBlock(1, <<"C", "H", "A", "P", "T", "E", "R", " ", " ", "1", "2", "-", " ", "g", "o">>),
      HeadingBlock(2, <<"C", "h", "a", "p", "t", "e", "r", " ", "2">>),
      ParagraphBlock(<<Span(<<"G", "O", "!">>, TRUE, FALSE)>>),
      ParagraphBlock(<<Span(<<"a">>, FALSE, FALSE), Span(<<" ", "b", " ">>, FALSE, TRUE)>>),
      ParagraphBlock(<<Span(<<"N", "o">>, FALSE, FALSE)>>),
      ListBlock(<<<<Span(<<"G", "o">>, FALSE, FALSE)>>>>),
      QuoteBlock(<<Span(<<"G", "o">>, FALSE, FALSE)>>) }

BlockLists == UNION { [1..n -> BlockPool] : n \in 0..MaxBlocks }

StripInit ==
    /\ BuildIdle
    /\ OthersIdle("strip")
    /\ \E blocks \in BlockLists, chapterTitle \in TitlePool :
          strip = [at |-> "call", blocks |-> blocks, chapterTitle |-> chapterTitle,
                   results |-> <<>>]

\* one call; the second call is given what the first returned
StripApply ==
    /\ strip.at = "call"
    /\ LET input == IF strip.results = <<>> THEN strip.blocks
                    ELSE strip.results[Len(strip.results)]
           result == stripLeadingChapterHeading(input, strip.chapterTitle)
       IN  strip' = [strip EXCEPT !.results = Append(@, result),
                                  !.at = IF Len(strip.results) = 1 THEN "done" ELSE "call"]
    /\ UNCHANGED buildVars
    /\ OthersUnchanged("strip")

StripNext == StripApply

StripSpec == StripInit /\ [][StripNext]_vars

\* ------------------------------------------------------------------------
\* generateChaptersWithGemini: the worker pool
\* ------------------------------------------------------------------------
MaxStubs == 5

\* a ChapterOutline; the description plays no part
Stub(index, title) == [index |-> index, title |-> title]

\* outlines whose chapter indexes ascend, descend or repeat
IndexOrders(n) ==
    { [i \in 1..n |-> i], [i \in 1..n |-> n + 1 - i], [i \in 1..n |-> 1 + (i % 2)] }

StubLists ==
    UNION { { [i \in 1..n |-> Stub(order[i], i)] : order \in IndexOrders(n) } : n \in 0..MaxStubs }

\* variant: one worker per chapter stub
concurrencyUnbounded(n) == n

\* Math.min(3, queue.length)
concurrency(n) == Min(3, n)

\* results.sort((a, b) => a.index - b.index): stable, ascending
RECURSIVE SortByIndex(_)
SortByIndex(seq) ==
    IF seq = <<>> THEN <<>>
    ELSE LET sorted == SortByIndex(SubSeq(seq, 1, Len(seq) - 1))
             last == seq[Len(seq)]
             k == Cardinality({ i \in DOMAIN sorted : sorted[i].index <= last.index })
         IN  SubSeq(sorted, 1, k) \o <<last>> \o SubSeq(sorted, k + 1, Len(sorted))

\* a worker that awaits the answer to its request for stubs[pos]
Waiting(pos) == [status |-> "waiting", pos |-> pos]

Finished == [status |-> "finished", pos |-> 0]

Failed == [status |-> "failed", pos |-> 0]

GenInit ==
    /\ BuildIdle
    /\ OthersIdle("gen")
    /\ \E stubs \in StubLists : gen = [GenIdle EXCEPT !.at = "call", !.stubs = stubs]

\* the synchronous part of the call: the queue is filled and each worker
\* runs up to its first await, so worker w has shifted stub w
GenStart ==
    /\ gen.at = "call"
    /\ LET n == Len(gen.stubs)
           c == concurrency(n)
       IN  gen' = [gen EXCEPT !.at = "running",
                              !.queue = [i \in 1..(n - c) |-> c + i],
                              !.workers = [w \in 1..c |-> Waiting(w)],
                              !.taken = [w \in 1..c |-> [worker |-> w, pos |-> w]]]
    /\ UNCHANGED buildVars
    /\ OthersUnchanged("gen")

\* withRetry resolves for worker w: the chapter is pushed, and the worker
\* either shifts the next stub and sends its request or leaves the loop
GenResponse(w) ==
    /\ gen.at \in {"running", "rejected"}
    /\ gen.workers[w].status = "waiting"
    /\ LET stub == gen.stubs[gen.workers[w].pos]
           content == [index |-> stub.index, title |-> stub.title, text |-> gen.workers[w].pos]
       IN  gen' = [gen EXCEPT
                     !.results = Append(@, content),
                     !.queue = IF @ = <<>> THEN @ ELSE Tail(@),
                     !.workers[w] = IF gen.queue = <<>> THEN Finished
                                    ELSE Waiting(Head(gen.queue)),
                     !.taken = IF gen.queue = <<>> THEN @
                               ELSE Append(@, [worker |-> w, pos |-> Head(gen.queue)])]
    /\ UNCHANGED buildVars
    /\ OthersUnchanged("gen")

\* withRetry rejects for worker w, or the answer is not JSON: the worker's
\* promise is rejected and with it Promise.all and the call; the other
\* workers go on
GenFailure(w) ==
    /\ gen.at \in {"running", "rejected"}
    /\ gen.workers[w].status = "waiting"
    /\ gen' = [gen EXCEPT !.workers[w] = Failed, !.at = "rejected"]
    /\ UNCHANGED buildVars
    /\ OthersUnchanged("gen")

\* every worker has left its loop: Promise.all resolves and the sorted
\* results are returned
GenReturn ==
    /\ gen.at = "running"
    /\ \A w \in DOMAIN gen.workers : gen.workers[w].status = "finished"
    /\ gen' = [gen EXCEPT !.at = "resolved", !.results = SortByIndex(@),
                          !.value = SortByIndex(gen.results)]
    /\ UNCHANGED buildVars
    /\ OthersUnchanged("gen")

GenNext ==
    \/ GenStart
    \/ \E w \in DOMAIN gen.workers : GenResponse(w)
    \/ \E w \in DOMAIN gen.workers : GenFailure(w)
    \/ GenReturn

GenSpec == GenInit /\ [][GenNext]_vars

\* ------------------------------------------------------------------------
\* withRetry
\* ------------------------------------------------------------------------
\* default parameters of withRetry
DefaultRetries == 2

DefaultInitialDelay == 1500

RETRYABLE_CODES == {429, 500, 503}

RETRYABLE_STATUSES == {"UNAVAILABLE", "RESOURCE_EXHAUSTED"}

\* what parseGeminiError finds in a thrown value: its code (0: none), the
\* code quoted in its message (0: none), its status ("": none) and the
\* phrase of its lowercased message that isTransientGeminiError looks for
GeminiError(code, codeFromMessage, status, phrase) ==
    [code |-> code, codeFromMessage |-> codeFromMessage, status |-> status, phrase |-> phrase]

ErrorPool ==
    { GeminiError(429, 0, "", "none"),
      GeminiError(0, 503, "", "none"),
      GeminiError(0, 0, "UNAVAILABLE", "none"),
      GeminiError(0, 0, "", "overloaded"),
      GeminiError(0, 0, "", "try again later"),
      GeminiError(400, 0, "INVALID_ARGUMENT", "none"),
      GeminiError(403, 500, "PERMISSION_DENIED", "none"),
      GeminiError(0, 0, "", "none") }

\* parsed.code: anyError.code ?? ... ?? the code quoted in the message
ParsedCode(error) == IF error.code # 0 THEN error.code ELSE error.codeFromMessage

isTransientGeminiError(error) ==
    \/ ParsedCode(error) # 0 /\ ParsedCode(error) \in RETRYABLE_CODES
    \/ error.status # "" /\ error.status \in RETRYABLE_STATUSES
    \/ error.phrase \in {"overloaded", "unavailable", "try again later"}

\* Math.round(initialDelay * 1.5)
NextDelay(initialDelay) == (3 * initialDelay + 1) \div 2

\* variant: any error is retried while retries are left
RetriesAnyError(retries, error) == retries > 0

\* the condition of the catch block
Retries(retries, error) == retries > 0 /\ isTransientGeminiError(error)

\* withRetry entered with its default parameters
RetryStart ==
    [RetryIdle EXCEPT !.at = "attempt", !.retries = DefaultRetries,
                      !.initialDelay = DefaultInitialDelay]

RetryInit ==
    /\ BuildIdle
    /\ OthersIdle("retry")
    /\ retry = RetryStart

\* await operation() resolves
RetryOperationResolves ==
    /\ retry.at = "attempt"
    /\ retry' = [retry EXCEPT !.at = "resolved", !.calls = @ + 1]
    /\ UNCHANGED buildVars
    /\ OthersUnchanged("retry")

\* await operation() throws: the catch block either starts the delay or
\* rethrows
RetryOperationThrows ==
    /\ retry.at = "attempt"
    /\ \E error \in ErrorPool :
          retry' = [retry EXCEPT
                      !.calls = @ + 1,
                      !.errors = Append(@, error),
                      !.delays = IF Retries(retry.retries, error)
                                 THEN Append(@, retry.initialDelay) ELSE @,
                      !.at = IF Retries(retry.retries, error) THEN "delay" ELSE "rejected"]
    /\ UNCHANGED buildVars
    /\ OthersUnchanged("retry")

\* the delay is over: withRetry(operation, retries - 1, Math.round(initialDelay * 1.5))
RetryAfterDelay ==
    /\ retry.at = "delay"
    /\ retry' = [retry EXCEPT !.at = "attempt", !.retries = @ - 1,
                              !.initialDelay = NextDelay(@)]
    /\ UNCHANGED buildVars
    /\ OthersUnchanged("retry")

RetryNext ==
    \/ RetryOperationResolves
    \/ RetryOperationThrows
    \/ RetryAfterDelay

RetrySpec == RetryInit /\ [][RetryNext]_vars

\* ------------------------------------------------------------------------
\* generateOutline and generateChapters
\* ------------------------------------------------------------------------
\* generateChaptersMock: one placeholder chapter per stub, in outline order
\* (text 0 is the placeholder text, text p the upstream answer for stub p)
generateChaptersMock(stubs) ==
    [i \in DOMAIN stubs |-> [index |-> stubs[i].index, title |-> stubs[i].title, text |-> 0]]

\* variant: the catch block rethrows
OnUpstreamFailureRethrow == "rejected"

\* the catch block goes on to the mock generator
OnUpstreamFailure == "mock"

SvcInit ==
    /\ BuildIdle
    /\ OthersIdle("svc")
    /\ \E fn \in {"outline", "chapters"}, hasKey \in BOOLEAN :
          \E stubs \in IF fn = "chapters" THEN StubLists ELSE {<<>>} :
              svc = [SvcIdle EXCEPT !.at = "call", !.fn = fn, !.hasKey = hasKey,
                                    !.stubs = stubs]

\* if (!apiKey): the mock generator is awaited
SvcKeyMissing ==
    /\ svc.at = "call"
    /\ ~svc.hasKey
    /\ svc' = [svc EXCEPT !.at = "mock", !.warning = "key missing"]
    /\ UNCHANGED buildVars
    /\ OthersUnchanged("svc")

\* the try block is entered
SvcCallUpstream ==
    /\ svc.at = "call"
    /\ svc.hasKey
    /\ svc' = [svc EXCEPT !.at = "upstream"]
    /\ UNCHANGED buildVars
    /\ OthersUnchanged("svc")

\* generateOutline: withRetry(() => generateOutlineWithGemini(config))
RetryBegin ==
    /\ svc.at = "upstream"
    /\ svc.fn = "outline"
    /\ retry = RetryIdle
    /\ retry' = RetryStart
    /\ UNCHANGED buildVars
    /\ OthersUnchanged("retry")

\* generateChapters: generateChaptersWithGemini(config, outline)
GenBegin ==
    /\ svc.at = "upstream"
    /\ svc.fn = "chapters"
    /\ gen = GenIdle
    /\ gen' = [GenIdle EXCEPT !.at = "call", !.stubs = svc.stubs]
    /\ UNCHANGED buildVars
    /\ OthersUnchanged("gen")

UpstreamResolved ==
    \/ svc.fn = "outline" /\ retry.at = "resolved"
    \/ svc.fn = "chapters" /\ gen.at = "resolved"

UpstreamRejected ==
    \/ svc.fn = "outline" /\ retry.at = "rejected"
    \/ svc.fn = "chapters" /\ gen.at = "rejected"

\* return { data, usedFallback: false }
SvcReturnUpstream ==
    /\ svc.at = "upstream"
    /\ UpstreamResolved
    /\ svc' = [svc EXCEPT !.at = "returned",
                          !.result = [data |-> [source |-> "upstream", chapters |-> gen.value],
                                      usedFallback |-> FALSE, warning |-> "none"]]
    /\ UNCHANGED buildVars
    /\ OthersUnchanged("svc")

\* catch (error): the mock generator is awaited
SvcCatch ==
    /\ svc.at = "upstream"
    /\ UpstreamRejected
    /\ svc' = [svc EXCEPT !.at = OnUpstreamFailure, !.warning = "temporarily unavailable"]
    /\ UNCHANGED buildVars
    /\ OthersUnchanged("svc")

\* return { data, usedFallback: true, warning }
SvcReturnMock ==
    /\ svc.at = "mock"
    /\ svc' = [svc EXCEPT !.at = "returned",
                          !.result = [data |-> [source |-> "mock",
                                                chapters |-> generateChaptersMock(svc.stubs)],
                                      usedFallback |-> TRUE, warning |-> svc.warning]]
    /\ UNCHANGED buildVars
    /\ OthersUnchanged("svc")

SvcNext ==
    \/ SvcKeyMissing
    \/ SvcCallUpstream
    \/ RetryBegin
    \/ RetryOperationResolves
    \/ RetryOperationThrows
    \/ RetryAfterDelay
    \/ GenBegin
    \/ GenStart
    \/ \E w \in DOMAIN gen.workers : GenResponse(w)
    \/ \E w \in DOMAIN gen.workers : GenFailure(w)
    \/ GenReturn
    \/ SvcReturnUpstream
    \/ SvcCatch
    \/ SvcReturnMock

SvcSpec == SvcInit /\ [][SvcNext]_vars

\* ------------------------------------------------------------------------
\* pdfService.ts: one paragraph block in the chapter loop of buildBookPdf
\* ------------------------------------------------------------------------
MaxParaLines == 6

\* the cursor positions at which a block can begin: a whole number of body
\* lines above the bottom margin (after paragraphs), or the first line of a
\* chapter page
MaxStartRows == 8

StartYs ==
    { config.margins.bottom + k * lineHeight : k \in 0..MaxStartRows }
    \cup { pageHeight - config.margins.top - config.headingSize * 20000 }

ParaInit ==
    /\ BuildIdle
    /\ OthersIdle("para")
    /\ \E lines \in 0..MaxParaLines, y \in StartYs, dropcap \in BOOLEAN :
          para = [ParaIdle EXCEPT !.at = "block", !.lines = lines, !.dropcap = dropcap,
                                  !.page = 1, !.y = y]

\* head of the block loop: a continuation page when fewer than two lines
\* of room are left
ParaBlockBegin ==
    /\ para.at = "block"
    /\ para' = IF para.y < config.margins.bottom + lineHeight * 2
               THEN [para EXCEPT !.at = "ensure", !.page = @ + 1,
                                 !.y = pageHeight - config.margins.top]
               ELSE [para EXCEPT !.at = "ensure"]
    /\ UNCHANGED buildVars
    /\ OthersUnchanged("para")

\* ensureSpace(state, ..., lineHeight * 3)
ParaEnsureSpace ==
    /\ para.at = "ensure"
    /\ para' = IF para.y - lineHeight * 3 < config.margins.bottom
               THEN [para EXCEPT !.at = "draw", !.page = @ + 1,
                                 !.y = pageHeight - config.margins.top - Pt(20)]
               ELSE [para EXCEPT !.at = "draw"]
    /\ UNCHANGED buildVars
    /\ OthersUnchanged("para")

\* drawParagraph, one iteration of its loop over the wrapped lines (with a
\* drop cap the loop runs on localY, which ends up in state.y): the line
\* has room and is drawn
ParaDrawLine ==
    /\ para.at = "draw"
    /\ para.pos <= para.lines
    /\ ~(para.y < config.margins.bottom + lineHeight)
    /\ para' = [para EXCEPT !.y = @ - lineHeight, !.pos = @ + 1,
                            !.drawn = Append(@, [line |-> para.pos, page |-> para.page,
                                                 y |-> para.y])]
    /\ UNCHANGED buildVars
    /\ OthersUnchanged("para")

\* ... the line has no room: break
ParaLineWithoutRoom ==
    /\ para.at = "draw"
    /\ para.pos <= para.lines
    /\ para.y < config.margins.bottom + lineHeight
    /\ para' = [para EXCEPT !.at = "end", !.y = @ - paragraphSpacing]
    /\ UNCHANGED buildVars
    /\ OthersUnchanged("para")

\* the loop ran over every line
ParaLinesDone ==
    /\ para.at = "draw"
    /\ para.pos > para.lines
    /\ para' = [para EXCEPT !.at = "end", !.y = @ - paragraphSpacing]
    /\ UNCHANGED buildVars
    /\ OthersUnchanged("para")

ParaNext ==
    \/ ParaBlockBegin
    \/ ParaEnsureSpace
    \/ ParaDrawLine
    \/ ParaLineWithoutRoom
    \/ ParaLinesDone

ParaSpec == ParaInit /\ [][ParaNext]_vars

\* ------------------------------------------------------------------------
\* useBookGeneration.ts: the generation state machine of the application
\* ------------------------------------------------------------------------
MaxCalls == 2

BookConfigPool == 1..2

\* the chapter indexes of the outlines the service returns: the mock numbers
\* them 1..chaptersCount, the upstream model answers with indexes of its own
\* choosing, and an answer without a chapter array is accepted as well
OutlineIndexPool == { <<>>, <<1, 2>>, <<2, 2>>, <<2, 1>> }

OutlineOf(indexes) ==
    [title |-> "book",
     chapters |-> [k \in DOMAIN indexes |-> [index |-> indexes[k], title |-> indexes[k]]]]

OutlinePool ==
    { OutlineOf(indexes) : indexes \in OutlineIndexPool }
    \cup { [title |-> "book"] }

\* the chapters generateChapters resolves with for an outline: one per
\* outline chapter with its index and title, in outline order from the mock
\* and sorted by index from the upstream worker pool
DraftsOf(outline) ==
    [k \in DOMAIN outline.chapters |->
        [index |-> outline.chapters[k].index, title |-> outline.chapters[k].title,
         text |-> "draft"]]

ChapterResults(outline) == { DraftsOf(outline), SortByIndex(DraftsOf(outline)) }

\* generateChapters rejects when the outline has no chapter array: both the
\* upstream path and the mock it falls back to iterate outline.chapters
ChaptersReject(outline) == "chapters" \notin DOMAIN outline

EditTexts == { "edited" }

EditIndexes == 0..2

\* updateState: { ...prevState, ...update }
updateState(prevState, update) ==
    [k \in DOMAIN prevState |-> IF k \in DOMAIN update THEN update[k] ELSE prevState[k]]

Op(name) == [op |-> name, chapterIndex |-> 0, text |-> "none"]

\* App: isGenerating, which disables the Generate button
isGenerating(genState) == genState.step \notin { "idle", "done", "error" }

\* generateBook up to its first await
generateBookBegin(h, bookConfig) ==
    [h EXCEPT
       !.state = updateState(h.state,
                    [step |-> "outline", progress |-> 5,
                     message |-> "Generating book outline...",
                     book |-> NoBook, error |-> NoError, warnings |-> <<>>]),
       !.calls = Append(h.calls, [at |-> "outline", config |-> bookConfig,
                                  outline |-> NoOutline, warnings |-> <<>>]),
       !.started = h.started + 1,
       !.sinceReset = FALSE,
       !.last = Op("generateBook")]

\* generateBook from the resolution of generateOutline to its second await
outlineResolved(h, i, outline, warned) ==
    LET call == h.calls[i]
        warnings == IF warned THEN Append(call.warnings, "outline warning")
                    ELSE call.warnings
    IN  [h EXCEPT
           !.state = updateState(h.state,
                        [step |-> "chapters", progress |-> 25,
                         message |-> "Outline complete. Generating chapters...",
                         book |-> [config |-> call.config, outline |-> outline,
                                   chapters |-> <<>>],
                         warnings |-> warnings]),
           !.calls[i] = [call EXCEPT !.at = "chapters", !.outline = outline,
                                     !.warnings = warnings],
           !.last = Op("outlineResolved")]

WithoutCall(calls, i) ==
    [k \in 1..(Len(calls) - 1) |-> IF k < i THEN calls[k] ELSE calls[k + 1]]

\* generateBook from the resolution of generateChapters to `return true`
chaptersResolved(h, i, chapters, warned) ==
    LET call == h.calls[i]
        warnings == IF warned THEN Append(call.warnings, "chapters warning")
                    ELSE call.warnings
    IN  [h EXCEPT
           !.state = updateState(h.state,
                        [step |-> "done", progress |-> 100,
                         message |-> IF Len(warnings) > 0
                                     THEN "Book generation complete with a few warnings."
                                     ELSE "Book generation complete!",
                         book |-> [config |-> call.config, outline |-> call.outline,
                                   chapters |-> chapters],
                         warnings |-> warnings]),
           !.calls = WithoutCall(h.calls, i),
           !.last = Op("chaptersResolved")]

\* generateBook's catch block to `return false`
generationFailed(h, i) ==
    [h EXCEPT
       !.state = updateState(h.state,
                    [step |-> "error", error |-> "Generation failed",
                     message |-> "An error occurred.", warnings |-> <<>>]),
       !.calls = WithoutCall(h.calls, i),
       !.last = Op("generationFailed")]

\* reset: setState(initialState)
reset(h) == [h EXCEPT !.state = initialState, !.sinceReset = TRUE, !.last = Op("reset")]

updateChapterTextFirstChapter(prevState, chapterIndex, text) ==
    IF prevState.book = NoBook THEN prevState
    ELSE [prevState EXCEPT !.book.chapters =
            [k \in DOMAIN prevState.book.chapters |->
                IF k = chapterIndex
                THEN [prevState.book.chapters[k] EXCEPT !.text = text]
                ELSE prevState.book.chapters[k]]]

\* updateChapterText: the updater handed to setState
updateChapterText(prevState, chapterIndex, text) ==
    IF prevState.book = NoBook THEN prevState
    ELSE [prevState EXCEPT !.book.chapters =
            [k \in DOMAIN prevState.book.chapters |->
                IF prevState.book.chapters[k].index = chapterIndex
                THEN [prevState.book.chapters[k] EXCEPT !.text = text]
                ELSE prevState.book.chapters[k]]]

\* BookPreview, rendered whenever the state holds a book, reads
\* book.outline.chapters.length and maps over the chapters: it throws on an
\* outline without a chapter array, and the App, which has no error
\* boundary, is unmounted
RenderCrashes(genState) ==
    /\ genState.book # NoBook
    /\ "chapters" \notin DOMAIN genState.book.outline

\* the hook after a state update that leads from h to updated: rendered and,
\* if the render throws, unmounted; once unmounted, setState is ignored and
\* only the pending generateBook calls go on
Committed(h, updated) ==
    IF h.mounted
    THEN [updated EXCEPT !.mounted = ~RenderCrashes(updated.state)]
    ELSE [h EXCEPT !.calls = updated.calls, !.last = updated.last]

HookInit ==
    /\ BuildIdle
    /\ OthersIdle("hook")
    /\ hook = HookIdle

\* the form submits only while the Generate button is enabled
GenerateBook ==
    /\ hook.mounted
    /\ hook.started < MaxCalls
    /\ ~isGenerating(hook.state)
    /\ \E bookConfig \in BookConfigPool : hook' = generateBookBegin(hook, bookConfig)
    /\ UNCHANGED buildVars
    /\ OthersUnchanged("hook")

OutlineResolved ==
    /\ \E i \in DOMAIN hook.calls, outline \in OutlinePool, warned \in BOOLEAN :
          /\ hook.calls[i].at = "outline"
          /\ hook' = Committed(hook, outlineResolved(hook, i, outline, warned))
    /\ UNCHANGED buildVars
    /\ OthersUnchanged("hook")

ChaptersResolved ==
    /\ \E i \in DOMAIN hook.calls, warned \in BOOLEAN :
          /\ hook.calls[i].at = "chapters"
          /\ ~ChaptersReject(hook.calls[i].outline)
          /\ \E chapters \in ChapterResults(hook.calls[i].outline) :
                hook' = Committed(hook, chaptersResolved(hook, i, chapters, warned))
    /\ UNCHANGED buildVars
    /\ OthersUnchanged("hook")

GenerationFailed ==
    /\ \E i \in DOMAIN hook.calls :
          /\ hook.calls[i].at = "chapters"
          /\ ChaptersReject(hook.calls[i].outline)
          /\ hook' = Committed(hook, generationFailed(hook, i))
    /\ UNCHANGED buildVars
    /\ OthersUnchanged("hook")

\* the New Book button is shown while the state holds a book
Reset ==
    /\ hook.mounted
    /\ hook.state.book # NoBook
    /\ hook' = reset(hook)
    /\ UNCHANGED buildVars
    /\ OthersUnchanged("hook")

UpdateChapterText ==
    /\ hook.mounted
    /\ \E chapterIndex \in EditIndexes, text \in EditTexts :
          hook' = [hook EXCEPT
                     !.state = updateChapterText(hook.state, chapterIndex, text),
                     !.last = [op |-> "updateChapterText",
                               chapterIndex |-> chapterIndex, text |-> text]]
    /\ UNCHANGED buildVars
    /\ OthersUnchanged("hook")

HookNext ==
    \/ GenerateBook
    \/ OutlineResolved
    \/ ChaptersResolved
    \/ GenerationFailed
    \/ Reset
    \/ UpdateChapterText

HookSpec == HookInit /\ [][HookNext]_vars

\* ------------------------------------------------------------------------
\* useGenerationQuota.ts: the daily generation quota
\* ------------------------------------------------------------------------
MaxDayChanges == 1

MaxBonus == 2

FirstDay == 1

Days == 0..(FirstDay + MaxDayChanges + 1)

FreshQuota(today) == [date |-> today, used |-> 0, bonus |-> 0]

\* what localStorage holds at mount: nothing, or the state the hook wrote
\* last, on the day before or earlier on the first day
NothingStored == [date |-> 0 - 1, used |-> 0, bonus |-> 0]

StoredPool ==
    { NothingStored }
    \cup { [date |-> d, used |-> u, bonus |-> b] :
             d \in { FirstDay - 1, FirstDay }, u \in 0..(BASE_LIMIT + 1), b \in 0..1 }

\* the states the hook writes (the effect of lines 34-38 runs on states the
\* operations below produced)
WrittenByHook(stored) == stored = NothingStored \/ stored.used <= BASE_LIMIT + stored.bonus

\* loadState
loadState(stored, today) ==
    IF stored = NothingStored THEN FreshQuota(today)
    ELSE IF stored.date # today THEN FreshQuota(today)
    ELSE stored

\* Math.max(0, BASE_LIMIT + state.bonus - state.used)
remaining(quotaState) == Max(0, BASE_LIMIT + quotaState.bonus - quotaState.used)

\* variant: the limit is not looked at
canGenerateAlways(quotaState) == TRUE

canGenerate(quotaState) == remaining(quotaState) > 0

\* the updater of consume
consume(prev, today) ==
    IF prev.date # today THEN [date |-> today, used |-> 1, bonus |-> 0]
    ELSE [prev EXCEPT !.used = Min(BASE_LIMIT + prev.bonus, prev.used + 1)]

\* variant: a refund is subtracted whatever is left
refundWithoutFloor(prev, today) ==
    IF prev.date # today THEN [date |-> today, used |-> 0, bonus |-> 0]
    ELSE [prev EXCEPT !.used = prev.used - 1]

\* the updater of refund
refund(prev, today) ==
    IF prev.date # today THEN [date |-> today, used |-> 0, bonus |-> 0]
    ELSE [prev EXCEPT !.used = Max(0, prev.used - 1)]

\* the updater of addShareBonus
addShareBonus(prev, today) ==
    IF prev.date # today THEN [date |-> today, used |-> 0, bonus |-> 1]
    ELSE [prev EXCEPT !.bonus = prev.bonus + 1]

\* the hook mounted on the first day
QuotaMounted ==
    \E stored \in StoredPool :
        /\ WrittenByHook(stored)
        /\ LET loaded == loadState(stored, FirstDay)
           IN  quota = [QuotaIdle EXCEPT
                          !.state = loaded,
                          !.today = FirstDay,
                          !.kept = [d \in Days |-> IF d = FirstDay THEN loaded.used ELSE 0],
                          !.granted = [d \in Days |-> IF d = FirstDay THEN loaded.bonus ELSE 0]]

QuotaInit ==
    /\ BuildIdle
    /\ OthersIdle("quota")
    /\ QuotaMounted

Consume ==
    /\ quota' = [quota EXCEPT !.state = consume(quota.state, quota.today),
                              !.last = "consume"]
    /\ UNCHANGED buildVars
    /\ OthersUnchanged("quota")

Refund ==
    /\ quota' = [quota EXCEPT !.state = refund(quota.state, quota.today),
                              !.last = "refund"]
    /\ UNCHANGED buildVars
    /\ OthersUnchanged("quota")

AddShareBonus ==
    /\ quota.state.bonus < MaxBonus
    /\ quota' = [quota EXCEPT !.state = addShareBonus(quota.state, quota.today),
                              !.last = "addShareBonus"]
    /\ UNCHANGED buildVars
    /\ OthersUnchanged("quota")

\* midnight: getTodayKey returns the next day from now on
DayChange ==
    /\ quota.today < FirstDay + MaxDayChanges
    /\ quota' = [quota EXCEPT !.today = quota.today + 1, !.last = "dayChange"]
    /\ UNCHANGED buildVars
    /\ OthersUnchanged("quota")

QuotaNext ==
    \/ Consume
    \/ Refund
    \/ AddShareBonus
    \/ DayChange

QuotaSpec == QuotaInit /\ [][QuotaNext]_vars

\* ------------------------------------------------------------------------
\* App: handleGenerate, handleReset and handleShareForBonus over the
\* generation hook and the quota hook (the App's view state other than
\* quotaNotice is left out)
\* ------------------------------------------------------------------------
MaxRequests == 3

MaxReloads == 1

\* the answers of the generation service to the App's requests: an outline
\* of one chapter, or one without a chapter array
AppOutlinePool == { OutlineOf(<<1>>), [title |-> "book"] }

AppInit ==
    /\ BuildIdle
    /\ AllIdleBut({"quota", "hook"})
    /\ QuotaMounted
    /\ hook = HookIdle

\* handleGenerate up to its await; the form calls it while the Generate
\* button is enabled
HandleGenerate ==
    /\ hook.mounted
    /\ ~isGenerating(hook.state)
    /\ IF ~canGenerate(quota.state)
       THEN /\ quota' = [quota EXCEPT !.notice = "Daily limit reached.",
                                      !.last = "handleGenerate"]
            /\ UNCHANGED hook
       ELSE /\ hook.started < MaxRequests
            /\ quota' = [quota EXCEPT
                           !.state = consume(quota.state, quota.today),
                           !.notice = "none",
                           !.startDays = Append(@, quota.today),
                           !.kept[quota.today] = @ + 1,
                           !.last = "handleGenerate"]
            /\ \E bookConfig \in { 1 } : hook' = generateBookBegin(hook, bookConfig)
    /\ UNCHANGED buildVars
    /\ AllUnchangedBut({"quota", "hook"})

\* generateOutline resolves for one of the calls in flight
AppOutlineResolved ==
    /\ \E i \in DOMAIN hook.calls, outline \in AppOutlinePool :
          /\ hook.calls[i].at = "outline"
          /\ hook' = Committed(hook, outlineResolved(hook, i, outline, FALSE))
    /\ UNCHANGED buildVars
    /\ OthersUnchanged("hook")

\* generateBook returns true: handleGenerate ends without a refund
GenerationSucceeded ==
    /\ \E i \in DOMAIN hook.calls :
          /\ hook.calls[i].at = "chapters"
          /\ ~ChaptersReject(hook.calls[i].outline)
          /\ \E chapters \in ChapterResults(hook.calls[i].outline) :
                hook' = Committed(hook, chaptersResolved(hook, i, chapters, FALSE))
          /\ quota' = [quota EXCEPT !.startDays = WithoutCall(@, i),
                                    !.last = "generationSucceeded"]
    /\ UNCHANGED buildVars
    /\ AllUnchangedBut({"quota", "hook"})

\* generateBook returns false: `if (!success) quota.refund()`; the refund
\* of an unmounted App is a setState that is ignored
GenerationFailedAndRefunded ==
    /\ \E i \in DOMAIN hook.calls :
          /\ hook.calls[i].at = "chapters"
          /\ ChaptersReject(hook.calls[i].outline)
          /\ hook' = Committed(hook, generationFailed(hook, i))
          /\ quota' = IF hook.mounted
                      THEN [quota EXCEPT
                              !.state = refund(quota.state, quota.today),
                              !.kept[quota.startDays[i]] = @ - 1,
                              !.startDays = WithoutCall(@, i),
                              !.last = "generationFailed"]
                      ELSE [quota EXCEPT
                              !.startDays = WithoutCall(@, i),
                              !.last = "generationFailed"]
    /\ UNCHANGED buildVars
    /\ AllUnchangedBut({"quota", "hook"})

\* handleShareForBonus
HandleShareForBonus ==
    /\ hook.mounted
    /\ SumSeq([d \in 1..(FirstDay + MaxDayChanges) |-> quota.granted[d]]) < MaxBonus
    /\ quota' = [quota EXCEPT
                   !.state = addShareBonus(quota.state, quota.today),
                   !.granted[quota.today] = @ + 1,
                   !.notice = "Thanks for sharing!",
                   !.last = "handleShareForBonus"]
    /\ UNCHANGED buildVars
    /\ OthersUnchanged("quota")

\* the page is loaded again: both hooks are mounted afresh, the quota from
\* what the effect of useGenerationQuota stored last, and the generateBook
\* calls of the page that is gone have no effect any more
Reload ==
    /\ quota.reloads < MaxReloads
    /\ quota' = [quota EXCEPT
                   !.state = loadState(quota.state, quota.today),
                   !.notice = "none",
                   !.startDays = <<>>,
                   !.reloads = @ + 1,
                   !.last = "mount"]
    /\ hook' = [HookIdle EXCEPT !.started = hook.started]
    /\ UNCHANGED buildVars
    /\ AllUnchangedBut({"quota", "hook"})

AppNext ==
    \/ HandleGenerate
    \/ AppOutlineResolved
    \/ GenerationSucceeded
    \/ GenerationFailedAndRefunded
    \/ Reset
    \/ HandleShareForBonus
    \/ DayChange
    \/ Reload

AppSpec == AppInit /\ [][AppNext]_vars

\* ------------------------------------------------------------------------
\* App: handleImagesSelected, handleAddImageByUrl, handleRemoveImage and
\* handleClearImages over the list of user images (toggling, captions,
\* placements and reordering keep the length of the list and are left out)
\* ------------------------------------------------------------------------
MaxSelections == 2

MaxUrlAdds == 2

MaxRemovals == 2

\* the number of files of an allowed type in one selection (0: none of the
\* chosen files is a PNG, JPG or WEBP)
FileCountPool == { 0, 1, 2, 12, 13 }

Uploads(n) == [k \in 1..n |-> "upload"]

ImageInit ==
    /\ BuildIdle
    /\ OthersIdle("upl")
    /\ upl = UploadIdle

\* handleImagesSelected up to its first await: remainingSlots is computed
\* from the list as it is now
HandleImagesSelected ==
    /\ upl.selected < MaxSelections
    /\ \E validFiles \in FileCountPool :
          LET remainingSlots == MAX_IMAGE_UPLOADS - Len(upl.userImages)
              filesToProcess == Min(validFiles, remainingSlots)
          IN  upl' = IF validFiles = 0
                     THEN [upl EXCEPT !.imageStatus = "Unsupported file type.",
                                      !.selected = @ + 1]
                     ELSE IF remainingSlots <= 0
                     THEN [upl EXCEPT !.imageStatus = "Gallery is full.",
                                      !.selected = @ + 1]
                     ELSE [upl EXCEPT !.selections = Append(@, filesToProcess),
                                      !.selected = @ + 1]
    /\ UNCHANGED buildVars
    /\ OthersUnchanged("upl")

\* the last file of a selection has been read (the reads before it touch
\* nothing but the call's own newAssets): setUserImages(prev => [...prev,
\* ...newAssets])
ImagesRead ==
    /\ \E i \in DOMAIN upl.selections :
          upl' = [upl EXCEPT !.userImages = @ \o Uploads(upl.selections[i]),
                             !.selections = WithoutCall(@, i),
                             !.imageStatus = "images ready for the PDF gallery."]
    /\ UNCHANGED buildVars
    /\ OthersUnchanged("upl")

\* a file read of a selection fails: the catch block
ImageReadFailed ==
    /\ \E i \in DOMAIN upl.selections :
          upl' = [upl EXCEPT !.selections = WithoutCall(@, i),
                             !.imageStatus = "Could not process one or more images."]
    /\ UNCHANGED buildVars
    /\ OthersUnchanged("upl")

\* handleAddImageByUrl up to its first await
HandleAddImageByUrl ==
    /\ upl.linked < MaxUrlAdds
    /\ upl' = [upl EXCEPT !.fetches = @ + 1, !.linked = @ + 1,
                          !.imageStatus = "Fetching remote image..."]
    /\ UNCHANGED buildVars
    /\ OthersUnchanged("upl")

\* the download and the read of its blob are done: the updater handed to
\* setUserImages looks at the list it is applied to. The updater sets the
\* "full" status when it runs, which is before or after the handler's own
\* "imported" status
UrlImageRead ==
    /\ upl.fetches > 0
    /\ IF Len(upl.userImages) >= MAX_IMAGE_UPLOADS
       THEN \E status \in { "Gallery is full.", "Link imported successfully." } :
               upl' = [upl EXCEPT !.fetches = @ - 1, !.imageStatus = status]
       ELSE upl' = [upl EXCEPT !.userImages = Append(@, "url"),
                               !.fetches = @ - 1,
                               !.imageStatus = "Link imported successfully."]
    /\ UNCHANGED buildVars
    /\ OthersUnchanged("upl")

\* the request fails, the type is not allowed or the blob cannot be read
UrlImageFailed ==
    /\ upl.fetches > 0
    /\ upl' = [upl EXCEPT !.fetches = @ - 1,
                          !.imageStatus = "Could not fetch that link."]
    /\ UNCHANGED buildVars
    /\ OthersUnchanged("upl")

\* handleRemoveImage: ids are unique, so the filter drops one position
HandleRemoveImage ==
    /\ upl.removed < MaxRemovals
    /\ \E i \in DOMAIN upl.userImages :
          upl' = [upl EXCEPT !.userImages = WithoutCall(@, i), !.removed = @ + 1]
    /\ UNCHANGED buildVars
    /\ OthersUnchanged("upl")

\* handleClearImages: the button is shown while the list is not empty
HandleClearImages ==
    /\ upl.removed < MaxRemovals
    /\ Len(upl.userImages) > 0
    /\ upl' = [upl EXCEPT !.userImages = <<>>, !.removed = @ + 1,
                          !.imageStatus = "Cleared all uploads."]
    /\ UNCHANGED buildVars
    /\ OthersUnchanged("upl")

ImageNext ==
    \/ HandleImagesSelected
    \/ ImagesRead
    \/ ImageReadFailed
    \/ HandleAddImageByUrl
    \/ UrlImageRead
    \/ UrlImageFailed
    \/ HandleRemoveImage
    \/ HandleClearImages

ImageSpec == ImageInit /\ [][ImageNext]_vars

\* ------------------------------------------------------------------------
\* Properties
\* ------------------------------------------------------------------------
InChapter == pc \in ImagePhases \cup {"blockLoop", "block"}

\* 1-based position of page p among the non-cover pages, in creation order
NonCoverPosition(p) == Cardinality({ q \in 1..p : pageMeta[q].role # "cover" })

PagesLabelled(idx) == Cardinality({ p \in DOMAIN pages : pages[p].label = idx })

RolePages(role) == { p \in DOMAIN pageMeta : pageMeta[p].role = role }

IsFirstPageOf(p, idx) == pages[p].banner /\ pages[p].label = idx

\* C1: the page number recorded in a chapter's table-of-contents entry is
\* the 1-based position of the chapter's first page among the non-cover
\* pages, and it is the number the footer pass stamps on that page.
C1_TocNumberIsFirstPagePosition ==
    \A k \in DOMAIN tocEntries :
        \E p \in DOMAIN pages :
            /\ IsFirstPageOf(p, tocEntries[k].index)
            /\ tocEntries[k].pageNumber = NonCoverPosition(p)
            /\ (pc = "done" /\ config.pageNumbering
                    => pages[p].footer = tocEntries[k].pageNumber)

C1_Witness ==
    /\ pc = "done"
    /\ config.pageNumbering
    /\ Len(tocEntries) >= 2
    /\ RolePages("gallery") # {}
    /\ \E p \in DOMAIN pages : pages[p].label # 0 /\ ~pages[p].banner

NoGalleryNoChapterImages ==
    \A i \in DOMAIN includedImages : includedImages[i].placement.type = "cover"

\* C2: without gallery and chapter images, the number recorded for the
\* k-th rendered chapter is 1 + the number of placeholder pages + the page
\* counts of the chapters rendered before it.
C2_TocNumberIsSumOfPageCounts ==
    NoGalleryNoChapterImages =>
        \A k \in DOMAIN tocEntries :
            tocEntries[k].pageNumber =
                1 + Len(tocPages)
                  + SumSeq([j \in 1..(k - 1) |-> PagesLabelled(tocEntries[j].index)])

C2_Witness ==
    /\ NoGalleryNoChapterImages
    /\ Len(tocEntries) >= 2
    /\ PagesLabelled(tocEntries[1].index) >= 2

\* C3: the footer pass stamps nothing on the cover, stamps the other pages
\* in creation order with 1, 2, 3, ... without gap or repeat, and when
\* numbering is enabled every non-cover page is stamped at the end.
C3_FooterNumbersConsecutive ==
    /\ \A p \in DOMAIN pages :
          /\ pageMeta[p].role = "cover" => pages[p].footer = 0
          /\ pages[p].footer # 0 =>
                /\ pages[p].footer = NonCoverPosition(p)
                /\ \A q \in 1..p : pageMeta[q].role # "cover" => pages[q].footer # 0
    /\ pc = "done" /\ config.pageNumbering =>
          \A p \in DOMAIN pages : pageMeta[p].role # "cover" => pages[p].footer # 0

C3_Witness ==
    /\ pc = "done"
    /\ config.pageNumbering
    /\ Len(pages) >= 4
    /\ pages[2].footer = 1
    /\ pages[Len(pages)].footer = Len(pages) - 1

\* C4: once the cover exists, the page-metadata list has exactly one cover
\* record and it is the first record.
C4_SingleCoverFirst ==
    pc # "cover" =>
        /\ Len(pageMeta) >= 1
        /\ pageMeta[1].role = "cover"
        /\ pageMeta[1].page = 1
        /\ \A i \in 2..Len(pageMeta) : pageMeta[i].role # "cover"

C4_Witness ==
    /\ pc = "done"
    /\ RolePages("toc") # {}
    /\ RolePages("gallery") # {}
    /\ Cardinality(RolePages("chapter")) >= 2

TocDrawn(entry) ==
    \E p \in RolePages("toc") : \E r \in DOMAIN pages[p].toc : pages[p].toc[r] = entry

\* C5: the fill pass never runs out of reserved rows: after it, every
\* recorded entry is drawn on a placeholder page.
C5_NoTocEntryDropped ==
    pc \in {"footer", "done"} => \A k \in DOMAIN tocEntries : TocDrawn(tocEntries[k])

\* C6: no body line, heading, bullet, chapter image or caption is drawn
\* below the bottom margin.
C6_NoDrawBelowBottomMargin ==
    \A d \in lastDraws : d.y >= config.margins.bottom

C6_Witness ==
    \E d \in lastDraws :
        /\ d.kind = "line"
        /\ ~pages[d.page].banner
        /\ d.y < config.margins.bottom + 2 * lineHeight

\* C7: within a chapter a drawing step keeps the page and strictly lowers
\* y, y never rises while the page stays, and y rises only in the step in
\* which ensureSpace creates a page, to at most pageHeight - margins.top.
C7_CursorMonotoneWithinPage ==
    [][ InChapter =>
          /\ (sub = "draw" => state'.page = state.page /\ state'.y < state.y)
          /\ (state'.page = state.page => state'.y <= state.y)
          /\ (state'.y > state.y =>
                /\ sub = "ensure" /\ sub' = "draw"
                /\ Len(pageMeta') = Len(pageMeta) + 1
                /\ state'.page = Len(pages')
                /\ state'.y <= pageHeight - config.margins.top) ]_vars

C7_Witness ==
    /\ InChapter
    /\ sub = "draw"
    /\ ~pages[state.page].banner
    /\ state.y = continuationStartY
    /\ lastDraws # {}

\* C8: a chapter image is drawn on one page, wholly between the bottom
\* margin and the top margin, and its caption is on the same page, below
\* the image and not below the bottom margin.
C8_ImageNotSplit ==
    \A d \in lastDraws :
        d.kind = "image" =>
            /\ d.y >= config.margins.bottom
            /\ d.y + d.height <= pageHeight - config.margins.top
            /\ \A c \in lastDraws :
                  c.kind = "caption" =>
                      /\ c.page = d.page
                      /\ c.y >= config.margins.bottom
                      /\ c.y < d.y

C8_Witness ==
    \E d \in lastDraws :
        /\ d.kind = "image"
        /\ ~pages[d.page].banner
        /\ \E c \in lastDraws : c.kind = "caption"

IsMiddleImage(e) == e.ev = "image" /\ e.anchor = "middle"

BlocksBefore(i) == Cardinality({ j \in 1..(i - 1) : chapLog[j].ev = "block" })

\* C9 as stated: the middle images come right after the block at position
\* max(1, ceil(totalBlocks / 2)).
C9_MiddleAfterCeilMidpoint ==
    InChapter /\ totalBlocks >= 1 =>
        \A i \in DOMAIN chapLog :
            IsMiddleImage(chapLog[i]) => BlocksBefore(i) = Max(1, CeilDiv(totalBlocks, 2))

\* C9 amended: the middle images come right after the block at position
\* max(1, floor(totalBlocks / 2)) and before the next block; with 4 blocks
\* that is after block 2 and before block 3.
C9_MiddleAfterFloorMidpoint ==
    InChapter /\ totalBlocks >= 1 =>
        \A i \in DOMAIN chapLog :
            IsMiddleImage(chapLog[i]) => BlocksBefore(i) = Max(1, totalBlocks \div 2)

C9_Witness ==
    /\ InChapter
    /\ totalBlocks = 3
    /\ \E i \in DOMAIN chapLog :
          /\ IsMiddleImage(chapLog[i])
          /\ chapLog[i - 1] = [ev |-> "block", n |-> 1, anchor |-> "none"]
          /\ i < Len(chapLog)
          /\ chapLog[Len(chapLog)].ev = "block"

ChapterComplete == pc = "endImages" /\ sub = "ensure" /\ imgPos > Len(CurrentImages)

DeclaredAnchor(im) == IF im.placement.anchor = "unset" THEN "start" ELSE im.placement.anchor

Assigned ==
    { includedImages[i] : i \in { j \in DOMAIN includedImages :
          /\ includedImages[j].placement.type = "chapter"
          /\ includedImages[j].placement.chapterIndex = chapter.index } }

AnchorRank(a) == CASE a = "start" -> 1 [] a = "middle" -> 2 [] OTHER -> 3

\* C10: when a chapter is complete every image assigned to it has been
\* drawn exactly once, under its declared anchor; start images precede
\* every block, end images follow every block, and the images appear in
\* the order start, middle, end (also when the chapter has no block).
C10_ImagesOnceInAnchorOrder ==
    ChapterComplete =>
        /\ \A im \in Assigned :
              Cardinality({ i \in DOMAIN chapLog :
                              chapLog[i] = [ev |-> "image", n |-> im.id,
                                            anchor |-> DeclaredAnchor(im)] }) = 1
        /\ Cardinality({ i \in DOMAIN chapLog : chapLog[i].ev = "image" })
              = Cardinality(Assigned)
        /\ Cardinality({ i \in DOMAIN chapLog : chapLog[i].ev = "block" }) = totalBlocks
        /\ \A i, j \in DOMAIN chapLog :
              /\ (chapLog[i].anchor = "start" /\ chapLog[j].ev = "block" => i < j)
              /\ (chapLog[i].anchor = "end" /\ chapLog[j].ev = "block" => j < i)
              /\ (chapLog[i].ev = "image" /\ chapLog[j].ev = "image"
                    /\ AnchorRank(chapLog[i].anchor) < AnchorRank(chapLog[j].anchor) => i < j)

C10_Witness ==
    /\ ChapterComplete
    /\ totalBlocks >= 3
    /\ \A a \in {"start", "middle", "end"} :
          \E i \in DOMAIN chapLog : chapLog[i].ev = "image" /\ chapLog[i].anchor = a

C10_WitnessNoBlocks ==
    /\ ChapterComplete
    /\ totalBlocks = 0
    /\ \E i \in DOMAIN chapLog : IsMiddleImage(chapLog[i])

\* an included image is placed on chapter index idx
Anchored(idx) ==
    \E k \in DOMAIN images :
        /\ images[k].include
        /\ images[k].placement.type = "chapter"
        /\ images[k].placement.chapterIndex = idx

TocEntriesOf(idx) == { k \in DOMAIN tocEntries : tocEntries[k].index = idx }

\* C11: a chapter whose text is blank gets no page, no page-metadata record
\* and no table-of-contents entry, unless an included image is placed on its
\* index; then it gets its chapter page and entry, and only images are
\* rendered on it.
C11_BlankChapterSkippedUnlessAnchored ==
    \A j \in DOMAIN book :
        book[j].blankText =>
            IF Anchored(book[j].index)
            THEN /\ chPos > j =>
                       /\ \E p \in DOMAIN pages : IsFirstPageOf(p, book[j].index)
                       /\ Cardinality(TocEntriesOf(book[j].index)) = 1
                 /\ chPos = j /\ InChapter =>
                       \A e \in DOMAIN chapLog : chapLog[e].ev = "image"
            ELSE /\ PagesLabelled(book[j].index) = 0
                 /\ TocEntriesOf(book[j].index) = {}
                 /\ \A p \in RolePages("chapter") :
                        pageMeta[p].chapterTitle # book[j].title

C11_Witness ==
    /\ pc = "done"
    /\ \E j \in DOMAIN book :
          /\ book[j].blankText
          /\ Anchored(book[j].index)
          /\ PagesLabelled(book[j].index) >= 1
    /\ \E j \in DOMAIN book :
          /\ book[j].blankText
          /\ ~Anchored(book[j].index)

\* C12: an included chapter image whose chapterIndex matches no chapter is
\* never embedded or drawn and gets no page or entry, and the build without
\* it yields the same pages (footers included), page metadata and
\* table-of-contents entries.
C12_OrphanImageHasNoEffect ==
    /\ \A k \in DOMAIN images :
          ( /\ images[k].include
            /\ images[k].placement.type = "chapter"
            /\ \A j \in DOMAIN book : book[j].index # images[k].placement.chapterIndex )
          => /\ images[k].id \notin embeddedImageCache
             /\ \A e \in DOMAIN chapLog :
                    chapLog[e].ev = "image" => chapLog[e].n # images[k].id
             /\ PagesLabelled(images[k].placement.chapterIndex) = 0
             /\ TocEntriesOf(images[k].placement.chapterIndex) = {}
    /\ pc = "done" /\ previous.built =>
          /\ pages = previous.pages
          /\ pageMeta = previous.pageMeta
          /\ tocEntries = previous.tocEntries

C12_Witness ==
    /\ pc = "done"
    /\ previous.built
    /\ Len(previous.pages) > 2
    /\ tocEntries # <<>>

Occurrences(im, seq) == Cardinality({ k \in DOMAIN seq : seq[k] = im })

PlacedIndexes == { images[k].placement.chapterIndex : k \in DOMAIN images }

BucketCount(im) ==
    Occurrences(im, galleryImages) + Occurrences(im, coverImages)
    + SumSeq([n \in 1..(MaxChapters + 2) |->
                 IF n - 1 \in PlacedIndexes THEN Occurrences(im, chapterImageMap(n - 1)) ELSE 0])

PositionOf(im) == CHOOSE k \in DOMAIN images : images[k] = im

\* C13: the placement resolver partitions the images: an excluded image is
\* in no bucket, an included one is in exactly one of the cover, gallery
\* and chapter buckets, an included image without placement is in the
\* gallery, and the gallery keeps the input order.
C13_ResolverPartitions ==
    /\ \A k \in DOMAIN images :
          /\ BucketCount(images[k]) = (IF images[k].include THEN 1 ELSE 0)
          /\ images[k].include /\ images[k].placement.type = "none"
                => Occurrences(images[k], galleryImages) = 1
    /\ \A a, b \in DOMAIN galleryImages :
          a < b => PositionOf(galleryImages[a]) < PositionOf(galleryImages[b])

C13_Witness ==
    /\ pc = "toc"
    /\ \E k \in DOMAIN images : ~images[k].include
    /\ \E k \in DOMAIN images : images[k].include /\ images[k].placement.type = "cover"
    /\ \E k \in DOMAIN images : images[k].include /\ images[k].placement.type = "chapter"

LineWidthOf(line) == SumSeq([k \in DOMAIN line |-> line[k].width])

\* C14: every line wrapTokens returns has a total token width of at most
\* maxWidth, except a line made of one single token that is itself wider
\* than maxWidth.
C14_LinesFitMaxWidth ==
    \A l \in DOMAIN wrap.lines :
        \/ LineWidthOf(wrap.lines[l]) <= wrap.maxWidth
        \/ /\ Len(wrap.lines[l]) = 1
           /\ wrap.lines[l][1].width > wrap.maxWidth

C14_Witness ==
    /\ wrap.at = "done"
    /\ \E l \in DOMAIN wrap.lines :
          /\ Len(wrap.lines[l]) >= 3
          /\ LineWidthOf(wrap.lines[l]) = wrap.maxWidth
    /\ \E l \in DOMAIN wrap.lines :
          /\ Len(wrap.lines[l]) = 1
          /\ wrap.lines[l][1].width > wrap.maxWidth

IsWideWord(p) == ~wrap.tokens[p].isSpace /\ wrap.tokens[p].width > wrap.maxWidth

\* C15: a non-whitespace token wider than maxWidth is never split, dropped
\* or truncated: the returned lines hold it whole, once, as the only token
\* of its line.
C15_WideTokenAloneAndWhole ==
    wrap.at = "done" =>
        \A p \in DOMAIN wrap.tokens :
            IsWideWord(p) =>
                /\ \E l \in DOMAIN wrap.lines :
                      wrap.lines[l] = << [pos |-> p, text |-> wrap.tokens[p].text,
                                          width |-> wrap.tokens[p].width,
                                          isSpace |-> FALSE] >>
                /\ Cardinality({ <<l, k>> \in (DOMAIN wrap.lines) \X (1..MaxTokens + 1) :
                                    /\ k <= Len(wrap.lines[l])
                                    /\ wrap.lines[l][k].pos = p }) = 1

C15_Witness ==
    /\ wrap.at = "done"
    /\ \E p \in DOMAIN wrap.tokens :
          /\ IsWideWord(p)
          /\ p > 1 /\ ~wrap.tokens[p - 1].isSpace
          /\ p < Len(wrap.tokens) /\ ~wrap.tokens[p + 1].isSpace /\ ~IsWideWord(p + 1)

WhitespaceChars == {" ", "\t", "\n", "\r"}

IsBlankText(rawText) ==
    rawText = Undefined \/ \A k \in DOMAIN rawText : rawText[k] \in WhitespaceChars

\* C16: parseMarkdownToBlocks is total on empty input: for an undefined,
\* empty or whitespace-only text the block sequence stays empty and the
\* call always has a next step until it returns.
C16_BlankInputGivesNoBlocks ==
    IsBlankText(parser.rawText) =>
        /\ parser.blocks = <<>>
        /\ parser.at \in {"call", "loop"} => ENABLED ParseNext

C16_Witness ==
    /\ parser.at = "done"
    /\ parser.rawText # Undefined
    /\ IsBlankText(parser.rawText)
    /\ \E k \in DOMAIN parser.rawText : parser.rawText[k] = "\n"
    /\ \E k \in DOMAIN parser.rawText : parser.rawText[k] = "\t"

IsPlainText(rawText) ==
    /\ rawText # Undefined
    /\ \A k \in DOMAIN rawText : rawText[k] \in WhitespaceChars \cup {"a", "b"}

\* the words of a plain text, grouped: a gap between two words that holds
\* two or more newlines holds a blank line and closes the group
RECURSIVE WordGroups(_, _, _, _, _)
WordGroups(str, word, group, groups, newlines) ==
    IF str = <<>>
    THEN LET last == IF word = <<>> THEN group ELSE Append(group, word)
         IN IF last = <<>> THEN groups ELSE Append(groups, last)
    ELSE IF Head(str) \in WhitespaceChars
         THEN WordGroups(Tail(str), <<>>,
                         IF word = <<>> THEN group ELSE Append(group, word), groups,
                         newlines + (IF Head(str) = "\n" THEN 1 ELSE 0))
         ELSE IF word = <<>> /\ newlines >= 2 /\ group # <<>>
              THEN WordGroups(Tail(str), <<Head(str)>>, <<>>, Append(groups, group), 0)
              ELSE WordGroups(Tail(str), Append(word, Head(str)), group, groups, 0)

RECURSIVE SpacedWords(_)
SpacedWords(words) ==
    IF words = <<>> THEN <<>>
    ELSE IF Len(words) = 1 THEN words[1]
         ELSE words[1] \o <<" ">> \o SpacedWords(Tail(words))

\* C17: a text of plain paragraph lines only yields exactly one paragraph
\* block per blank-line-delimited group, in order, each with one span that
\* is neither bold nor italic and whose text is the words of the group's
\* lines separated by single blanks.
C17_PlainGroupsBecomeParagraphs ==
    parser.at = "done" /\ IsPlainText(parser.rawText) =>
        LET groups == WordGroups(parser.rawText, <<>>, <<>>, <<>>, 0)
        IN parser.blocks =
              [k \in DOMAIN groups |->
                  [kind |-> "paragraph", level |-> 0, text |-> <<>>, items |-> <<>>,
                   spans |-> << [text |-> SpacedWords(groups[k]),
                                 bold |-> FALSE, italic |-> FALSE] >>]]

C17_Witness ==
    /\ parser.at = "done"
    /\ IsPlainText(parser.rawText)
    /\ Len(parser.lines) = 2
    /\ Len(parser.blocks) = 1
    /\ parser.blocks[1].spans[1].text = <<"a", " ", "b", " ", "a">>

\* a bullet line: one of the markers '*', '-', '+', a space, then text
IsBulletLine(str) == Len(str) >= 3 /\ str[1] \in {"*", "-", "+"} /\ str[2] = " "

LineAt(n) == Trim(parser.lines[n])

\* C18: every maximal run of consecutive bullet lines (any of the three
\* markers) becomes one list block with one item per line, and the
\* paragraph pending before the run is flushed before it.
C18_BulletRunsBecomeLists ==
    parser.at = "done" =>
        \A f, t \in DOMAIN parser.lines :
            ( /\ f <= t
              /\ \A n \in f..t : IsBulletLine(LineAt(n))
              /\ f > 1 => ~IsBulletLine(LineAt(f - 1))
              /\ t < Len(parser.lines) => ~IsBulletLine(LineAt(t + 1)) )
            => /\ \E k \in DOMAIN parser.blocks :
                     /\ parser.blocks[k].kind = "list"
                     /\ parser.origin[k] = [from |-> f, to |-> t]
                     /\ Len(parser.blocks[k].items) = t - f + 1
               /\ \A k \in DOMAIN parser.blocks :
                     parser.origin[k].from < f => parser.origin[k].to < f

\* a heading line: n '#', whitespace, then text
IsHeadingLine(str, n) ==
    /\ Len(str) >= n + 2
    /\ \A i \in 1..n : str[i] = "#"
    /\ str[n + 1] \in WhitespaceChars

\* C19: a line of one to three '#' followed by whitespace and text yields
\* a heading block whose level is the number of '#' and whose text is the
\* rest of the line; every heading block has a level between 1 and 3.
C19_HeadingLevelIsHashCount ==
    /\ \A k \in DOMAIN parser.blocks :
          parser.blocks[k].kind = "heading" => parser.blocks[k].level \in 1..3
    /\ \A j \in 1..parser.i : \A n \in 1..3 :
          IsHeadingLine(LineAt(j), n) =>
              \E k \in DOMAIN parser.blocks :
                  /\ parser.origin[k] = [from |-> j, to |-> j]
                  /\ parser.blocks[k] =
                        [kind |-> "heading", level |-> n, text |-> Trim(Drop(LineAt(j), n)),
                         spans |-> <<>>, items |-> <<>>]

C19_Witness ==
    /\ parser.at = "done"
    /\ \E j \in DOMAIN parser.lines : IsHeadingLine(LineAt(j), 1)
    /\ \E j \in DOMAIN parser.lines : IsHeadingLine(LineAt(j), 3)
    /\ \E k \in DOMAIN parser.blocks :
          parser.blocks[k].level = 3 /\ parser.blocks[k].text = <<"a", " ", "b">>

IsSpecialLine(str) ==
    \/ IsBulletLine(str)
    \/ \E n \in 1..3 : IsHeadingLine(str, n)
    \/ str # <<>> /\ str[1] = ">"

\* C20: blocks come in source line order, paragraph lines that follow one
\* another end up in one paragraph block, and no paragraph block holds a
\* heading, bullet or quote line or text from both sides of one.
C20_ParagraphsNeverSpanSpecialLines ==
    parser.at = "done" =>
        /\ \A k \in DOMAIN parser.blocks :
              /\ parser.origin[k].from <= parser.origin[k].to
              /\ k > 1 => parser.origin[k - 1].to < parser.origin[k].from
              /\ k > 1 /\ parser.blocks[k].kind = "paragraph"
                       /\ parser.blocks[k - 1].kind = "paragraph"
                    => parser.origin[k - 1].to + 1 < parser.origin[k].from
        /\ \A k \in DOMAIN parser.blocks :
              parser.blocks[k].kind = "paragraph" =>
                  \A j \in parser.origin[k].from..parser.origin[k].to :
                      LineAt(j) # <<>> /\ ~IsSpecialLine(LineAt(j))

MarkerChars == {"*", "_", Backtick}

\* the text opens with a fully closed pair of n delimiters d around r
\* characters (r >= 1) that are not d
OpensWithPair(str, n, r) ==
    /\ r >= 1
    /\ Len(str) >= 2 * n + r
    /\ str[1] \in MarkerChars
    /\ n = 2 => str[1] # Backtick
    /\ \A k \in 1..n : str[k] = str[1]
    /\ \A k \in (n + 1)..(n + r) : str[k] # str[1]
    /\ \A k \in (n + r + 1)..(2 * n + r) : str[k] = str[1]

PairsAtHead(str) ==
    { nr \in {1, 2} \X (1..Len(str)) : OpensWithPair(str, nr[1], nr[2]) }

\* the text with the delimiters of its closed pairs removed, left to right
RECURSIVE WithoutDelimiters(_)
WithoutDelimiters(str) ==
    IF str = <<>> THEN <<>>
    ELSE IF PairsAtHead(str) = {}
         THEN <<Head(str)>> \o WithoutDelimiters(Tail(str))
         ELSE LET nr == CHOOSE nr \in PairsAtHead(str) : TRUE
              IN SubSeq(str, nr[1] + 1, nr[1] + nr[2])
                 \o WithoutDelimiters(Drop(str, 2 * nr[1] + nr[2]))

\* every whitespace run replaced by one blank
SingleSpaced(str) ==
    LET kept == { k \in DOMAIN str :
                     ~(str[k] \in WhitespaceChars /\ k > 1 /\ str[k - 1] \in WhitespaceChars) }
        nth(m) == CHOOSE k \in kept : Cardinality({ j \in kept : j <= k }) = m
    IN [m \in 1..Cardinality(kept) |->
           IF str[nth(m)] \in WhitespaceChars THEN " " ELSE str[nth(m)]]

RECURSIVE SpanTexts(_)
SpanTexts(spans) ==
    IF spans = <<>> THEN <<>> ELSE Head(spans).text \o SpanTexts(Tail(spans))

\* C21: the span texts of parseInlineSpans, concatenated, are the input
\* (whitespace runs collapsed) without the delimiters of its closed marker
\* pairs; a text without any closed pair stays one plain span with its
\* markers as literal text; no span is both bold and italic.
C21_InlineSpansLoseNoText ==
    inline.at = "done" =>
        /\ SpanTexts(inline.spans) = WithoutDelimiters(SingleSpaced(inline.text))
        /\ ( /\ inline.text # <<>>
             /\ \A i \in DOMAIN inline.text : PairsAtHead(Drop(inline.text, i - 1)) = {} )
           => inline.spans = << [text |-> SingleSpaced(inline.text),
                                 bold |-> FALSE, italic |-> FALSE] >>
        /\ \A k \in DOMAIN inline.spans : ~(inline.spans[k].bold /\ inline.spans[k].italic)

C21_Witness ==
    /\ inline.at = "done"
    /\ \E k \in DOMAIN inline.spans : inline.spans[k].italic
    /\ \E k \in DOMAIN inline.spans :
          /\ ~inline.spans[k].italic
          /\ \E c \in DOMAIN inline.spans[k].text : inline.spans[k].text[c] \in MarkerChars


\* --- title stripping ---
\* what stripLeadingChapterHeading compares with the title
CandidateText(block) ==
    IF block.kind = "heading" THEN block.text ELSE spansToPlainText(block.spans)

RepeatsTitle(block, chapterTitle) ==
    /\ block.kind \in {"heading", "paragraph"}
    /\ normalizeForComparison(CandidateText(block)) = normalizeForComparison(chapterTitle)

\* the length of the longest prefix of blocks that each repeat the title
TitlePrefix(blocks, chapterTitle) ==
    Cardinality({ n \in 1..Len(blocks) : \A j \in 1..n : RepeatsTitle(blocks[j], chapterTitle) })

\* C22: title stripping is idempotent: stripping what a first call returned,
\* with the same chapter title, returns it unchanged.
C22_StripIdempotent ==
    strip.at = "done" => strip.results[2] = strip.results[1]

\* the first call removed two blocks, so a second call had a shorter sequence
\* to strip, and blocks were left
C22_Witness ==
    /\ strip.at = "done"
    /\ Len(strip.results[1]) + 2 <= Len(strip.blocks)
    /\ strip.results[1] # <<>>

\* C23: the result is the input without its longest prefix of blocks that
\* are each a heading or paragraph whose normalized text equals the
\* normalized chapter title: the removal stops at the first block that does
\* not match or is a list or quote, and the later blocks stay, in order.
C23_RemovesLongestTitlePrefix ==
    strip.results # <<>> =>
        strip.results[1] = Drop(strip.blocks, TitlePrefix(strip.blocks, strip.chapterTitle))

\* --- image embedding ---
SeqRange(seq) == { seq[k] : k \in DOMAIN seq }

\* the assets a build requests when no step ends it early: the two cover
\* slots, the gallery, the images of the chapters that are rendered
UsedAssets ==
    SeqRange(CoverRequests)
    \cup SeqRange(galleryImages)
    \cup UNION { SeqRange(chapterImageMap(book[j].index)) :
                 j \in { i \in DOMAIN book : ~SkipsChapter(book[i]) } }

\* C24: a build whose images include one that cannot be decoded or embedded
\* never resolves; it is rejected in the step that requests the image, after
\* a single call of embedUserImage for it.
C24_EmbedFailureRejectsBuild ==
    /\ pc = "done" => \A a \in UsedAssets : ~EmbedThrows(a)
    /\ pc = "rejected" =>
          /\ embedCalls # <<>>
          /\ \E a \in UsedAssets :
                /\ EmbedThrows(a)
                /\ a.id = embedCalls[Len(embedCalls)]
                /\ a.id \notin embeddedImageCache
          /\ Occurrences(embedCalls[Len(embedCalls)], embedCalls) = 1

\* a build rejected while a chapter was being rendered
C24_Witness ==
    /\ pc = "rejected"
    /\ chapLog # <<>>
    /\ Len(pages) > 3

\* the size at which the gallery or drawChapterImage draws the asset
DrawnWidth(a) ==
    IF a.placement.type = "chapter"
    THEN ScaledWidth(a, contentWidth, (pageHeight * 35) \div 100)
    ELSE ScaledWidth(a, galleryCardWidth, (pageHeight * 35) \div 100)

DrawnHeight(a) ==
    IF a.placement.type = "chapter" THEN ChapterDrawHeight(a) ELSE GalleryDrawHeight(a)

\* C25: a build that uses, in the gallery or in a chapter, an image whose
\* scaled width or height is zero or negative never resolves, and no image
\* is drawn with such a height.
C25_ZeroSizedImageFailsBuild ==
    /\ pc = "done" =>
          \A a \in UsedAssets :
              a.placement.type # "cover" => DrawnWidth(a) > 0 /\ DrawnHeight(a) > 0
    /\ \A d \in lastDraws : d.kind = "image" => d.height > 0

\* C26: within one build embedUserImage is called at most once for an asset
\* id, and the ids in the cache are the ids of the calls that returned.
C26_EachAssetEmbeddedOnce ==
    /\ \A i, j \in DOMAIN embedCalls : embedCalls[i] = embedCalls[j] => i = j
    /\ embeddedImageCache =
          { embedCalls[k] : k \in { i \in DOMAIN embedCalls :
                                      ~(pc = "rejected" /\ i = Len(embedCalls)) } }

\* the gallery has requested an asset that the cover had embedded
C26_Witness ==
    /\ pc = "galleryLoop"
    /\ galleryPos > 1
    /\ \E a \in SeqRange(CoverRequests) : a.id = galleryImages[galleryPos - 1].id
    /\ Occurrences(galleryImages[galleryPos - 1].id, embedCalls) = 1

\* --- chapter generation ---
InFlight == { w \in DOMAIN gen.workers : gen.workers[w].status = "waiting" }

TakenBy(pos) == { k \in DOMAIN gen.taken : gen.taken[k].pos = pos }

\* C27: at most min(3, number of stubs) requests are in flight, no stub is
\* taken from the queue twice, and a call that resolves has taken every stub
\* once and returns one chapter per stub, with the stub's index and title,
\* in ascending order of index.
C27_WorkerPoolBoundedAndComplete ==
    /\ Cardinality(InFlight) <= Min(3, Len(gen.stubs))
    /\ \A pos \in DOMAIN gen.stubs : Cardinality(TakenBy(pos)) <= 1
    /\ gen.at = "resolved" =>
          /\ \A pos \in DOMAIN gen.stubs : Cardinality(TakenBy(pos)) = 1
          /\ Len(gen.value) = Len(gen.stubs)
          /\ \A pos \in DOMAIN gen.stubs :
                \E k \in DOMAIN gen.value :
                    gen.value[k] = [index |-> gen.stubs[pos].index,
                                    title |-> gen.stubs[pos].title, text |-> pos]
          /\ \A k \in 1..(Len(gen.value) - 1) : gen.value[k].index <= gen.value[k + 1].index

\* a resolved call of more stubs than workers whose answers arrived out of
\* the order of the outline
C27_Witness ==
    /\ gen.at = "resolved"
    /\ Len(gen.stubs) > 3
    /\ \E k \in 1..(Len(gen.taken) - 1) : gen.taken[k].worker > gen.taken[k + 1].worker
    /\ \E k \in DOMAIN gen.value : gen.value[k].text # k

\* --- retries ---
\* C28: the operation is called at most 3 times; a delay follows an error
\* only when the error is transient; the delays are 1500 ms and then
\* 2250 ms; and a rejected call rethrew its last error without a delay,
\* that error being non-transient or the third.
C28_RetryBoundedWithGrowingDelay ==
    /\ retry.calls <= 3
    /\ Len(retry.delays) <= 2
    /\ \A k \in DOMAIN retry.delays :
          /\ retry.delays[k] = IF k = 1 THEN 1500 ELSE 2250
          /\ isTransientGeminiError(retry.errors[k])
    /\ retry.at = "rejected" =>
          /\ Len(retry.delays) = Len(retry.errors) - 1
          /\ Len(retry.errors) = retry.calls
          /\ \/ ~isTransientGeminiError(retry.errors[Len(retry.errors)])
             \/ retry.calls = 3

\* three calls that each met a transient error
C28_Witness ==
    /\ retry.at = "rejected"
    /\ retry.calls = 3
    /\ retry.delays = <<1500, 2250>>
    /\ isTransientGeminiError(retry.errors[3])

\* --- fallback ---
\* C29: generateOutline and generateChapters never reject; without an API
\* key, and after a failure of the upstream call, they return placeholder
\* data with usedFallback = true and a warning; usedFallback = false comes
\* only with a result that is wholly the upstream one.
C29_FallbackInsteadOfRejection ==
    /\ svc.at # "rejected"
    /\ svc.at = "returned" =>
          /\ ~svc.hasKey =>
                /\ svc.result.usedFallback
                /\ svc.result.warning = "key missing"
                /\ svc.result.data.source = "mock"
          /\ svc.hasKey /\ UpstreamRejected =>
                /\ svc.result.usedFallback
                /\ svc.result.warning = "temporarily unavailable"
                /\ svc.result.data =
                      [source |-> "mock", chapters |-> generateChaptersMock(svc.stubs)]
          /\ ~svc.result.usedFallback =>
                /\ svc.hasKey
                /\ UpstreamResolved
                /\ svc.result.warning = "none"
                /\ svc.result.data.source = "upstream"
                /\ Len(svc.result.data.chapters) = Len(svc.stubs)
                /\ \A k \in DOMAIN svc.result.data.chapters :
                       svc.result.data.chapters[k].text # 0

\* placeholder chapters returned although some chapters had been generated
C29_Witness ==
    /\ svc.at = "returned"
    /\ svc.fn = "chapters"
    /\ svc.hasKey
    /\ svc.result.usedFallback
    /\ gen.results # <<>>
    /\ Len(svc.result.data.chapters) > Len(gen.results)

\* --- pdfService.ts: paragraphs ---
\* C30: when a paragraph block has been rendered, every one of its wrapped
\* lines has been drawn, in order, on the page the block began on or on a
\* following page.
C30_EveryParagraphLineDrawn ==
    para.at = "end" =>
        /\ Len(para.drawn) = para.lines
        /\ \A k \in DOMAIN para.drawn : para.drawn[k].line = k

\* ------------------------------------------------------------------------
\* C31: updateChapterText(chapterIndex, text) replaces the text of the
\* chapters whose index equals chapterIndex and nothing else: every chapter
\* keeps its index, its title and its place, chapters with another index keep
\* their text, the config, the outline, the step, the progress, the message,
\* the error and the warnings are unchanged, and the state is unchanged when
\* there is no book or no chapter has that index.
\* ------------------------------------------------------------------------
ChaptersWithIndex(genState, chapterIndex) ==
    IF genState.book = NoBook THEN {}
    ELSE { k \in DOMAIN genState.book.chapters :
             genState.book.chapters[k].index = chapterIndex }

C31_UpdateChapterTextReplacesOnlyThatText ==
    [][hook'.last.op = "updateChapterText" =>
        LET before == hook.state
            after == hook'.state
            chapterIndex == hook'.last.chapterIndex
        IN  /\ hook'.calls = hook.calls
            /\ \A field \in DOMAIN before \ { "book" } : after[field] = before[field]
            /\ IF ChaptersWithIndex(before, chapterIndex) = {} THEN after = before
               ELSE /\ after.book.config = before.book.config
                    /\ after.book.outline = before.book.outline
                    /\ DOMAIN after.book.chapters = DOMAIN before.book.chapters
                    /\ \A k \in DOMAIN before.book.chapters :
                         /\ after.book.chapters[k].index = before.book.chapters[k].index
                         /\ after.book.chapters[k].title = before.book.chapters[k].title
                         /\ after.book.chapters[k].text =
                              IF before.book.chapters[k].index = chapterIndex
                              THEN hook'.last.text
                              ELSE before.book.chapters[k].text]_vars

\* an edit of one chapter of a book of two, the other still as drafted
C31_Witness ==
    /\ hook.last.op = "updateChapterText"
    /\ hook.state.step = "done"
    /\ \E k \in ChaptersWithIndex(hook.state, hook.last.chapterIndex) :
         hook.state.book.chapters[k].text = hook.last.text
    /\ \E k \in DOMAIN hook.state.book.chapters :
         /\ hook.state.book.chapters[k].index # hook.last.chapterIndex
         /\ hook.state.book.chapters[k].text = "draft"

\* ------------------------------------------------------------------------
\* C32: a call ensureSpace(needed) appends one chapter continuation page
\* with its page-metadata record, makes it the current page and sets y to
\* pageHeight - margins.top - 32 exactly when y - needed < margins.bottom;
\* otherwise the pages, the page-metadata list, the current page and y are
\* unchanged.  No call adds more than one page.
\* ------------------------------------------------------------------------
\* the room asked for by the ensureSpace call that is about to run
NeededNow ==
    IF pc \in ImagePhases
    THEN ChapterDrawHeight(CurrentImages[imgPos]) + Pt(40)
    ELSE UnitNeeded(currentBlock, Units(currentBlock)[unitIndex])

C32_EnsureSpaceNewPageExactlyWhenShort ==
    [][ InChapter /\ sub = "ensure" /\ sub' = "draw" =>
          IF state.y - NeededNow < config.margins.bottom
          THEN /\ Len(pages') = Len(pages) + 1
               /\ SubSeq(pages', 1, Len(pages)) = pages
               /\ Len(pageMeta') = Len(pageMeta) + 1
               /\ SubSeq(pageMeta', 1, Len(pageMeta)) = pageMeta
               /\ state'.page = Len(pages')
               /\ state'.y = pageHeight - config.margins.top - Pt(32)
          ELSE /\ pages' = pages
               /\ pageMeta' = pageMeta
               /\ state' = state ]_vars

\* ensureSpace has moved a block to a continuation page
C32_Witness ==
    /\ pc = "block"
    /\ sub = "draw"
    /\ state.page = Len(pages)
    /\ ~pages[state.page].banner
    /\ state.y = pageHeight - config.margins.top - Pt(32)
    /\ Len(pageMeta) = Len(pages)

\* ------------------------------------------------------------------------
\* C33: every rendered chapter has exactly one page with the title banner
\* and its rule, and that page is the first of the chapter's pages; every
\* other page of the chapter carries the accent strip and the chapter label
\* without the banner; all pages of the chapter are recorded with role
\* 'chapter' and the chapter's title, and no other page carries a label.
\* ------------------------------------------------------------------------
PagesOfChapter(chapterIndex) == { p \in DOMAIN pages : pages[p].label = chapterIndex }

C33_OneBannerPagePerChapter ==
    /\ Len(pageMeta) = Len(pages)
    /\ \A i \in DOMAIN tocEntries :
         LET own == PagesOfChapter(tocEntries[i].index)
             banners == { p \in own : pages[p].banner }
         IN  /\ Cardinality(banners) = 1
             /\ \A p \in banners : \A q \in own : p <= q
             /\ \A p \in own :
                  /\ pageMeta[p].role = "chapter"
                  /\ pageMeta[p].chapterTitle = tocEntries[i].title
    /\ \A p \in DOMAIN pages :
         /\ pageMeta[p].role = "chapter" <=> pages[p].label # 0
         /\ pages[p].label # 0 =>
              \E i \in DOMAIN tocEntries : tocEntries[i].index = pages[p].label
         /\ pages[p].banner => pages[p].label # 0

\* a finished document with two chapters, one of them with a continuation page
C33_Witness ==
    /\ pc = "done"
    /\ Len(tocEntries) >= 2
    /\ \E p \in DOMAIN pages :
         /\ pages[p].label # 0
         /\ ~pages[p].banner
         /\ pageMeta[p].role = "chapter"

\* ------------------------------------------------------------------------
\* C36: within one build the page-metadata list only grows at its end and
\* always has one record per page of the document, the p-th record for the
\* p-th page; its roles in order are one cover, then one or more toc, then
\* gallery records, then chapter records; the table-of-contents fill pass
\* and the footer pass add no page and no record.
\* ------------------------------------------------------------------------
RoleRank(role) ==
    CASE role = "cover" -> 0
      [] role = "toc" -> 1
      [] role = "gallery" -> 2
      [] role = "chapter" -> 3

PageMetaInPageOrder ==
    /\ Len(pageMeta) = Len(pages)
    /\ \A p \in DOMAIN pageMeta :
         /\ pageMeta[p].page = p
         /\ pageMeta[p].role \in { "cover", "toc", "gallery", "chapter" }
         /\ p = 1 <=> pageMeta[p].role = "cover"
         /\ p = 2 => pageMeta[p].role = "toc"
         /\ p > 1 => RoleRank(pageMeta[p - 1].role) <= RoleRank(pageMeta[p].role)
    /\ pc \in { "gallery", "galleryLoop", "chapterLoop", "tocFill", "footer", "done" }
         => Len(pageMeta) >= 2

C36_PageMetaAppendOnlyInRoleOrder ==
    [][ ~(pc = "done" /\ pc' = "cover") =>
          /\ Len(pageMeta') >= Len(pageMeta)
          /\ SubSeq(pageMeta', 1, Len(pageMeta)) = pageMeta
          /\ PageMetaInPageOrder'
          /\ pc \in { "tocFill", "footer" } =>
               /\ pageMeta' = pageMeta
               /\ Len(pages') = Len(pages) ]_vars

\* a finished, footed document with all four roles and the table of
\* contents filled in
C36_Witness ==
    /\ pc = "done"
    /\ config.pageNumbering
    /\ { pageMeta[p].role : p \in DOMAIN pageMeta } = { "cover", "toc", "gallery", "chapter" }
    /\ \E p \in DOMAIN pages : pages[p].toc # <<>>
    /\ \E p \in DOMAIN pages : pages[p].footer # 0

\* ------------------------------------------------------------------------
\* C34: no line that wrapTokens has pushed is empty, begins with a
\* whitespace token or ends with a whitespace token.
\* ------------------------------------------------------------------------
C34_LinesTrimmedAndNonEmpty ==
    \A l \in DOMAIN wrap.lines :
        /\ wrap.lines[l] # <<>>
        /\ ~wrap.lines[l][1].isSpace
        /\ ~wrap.lines[l][Len(wrap.lines[l])].isSpace

PositionsInLines ==
    UNION { { wrap.lines[l][k].pos : k \in DOMAIN wrap.lines[l] } : l \in DOMAIN wrap.lines }

\* two lines returned for an argument that begins with whitespace and has
\* whitespace before the break or at its end
C34_Witness ==
    /\ wrap.at = "done"
    /\ Len(wrap.lines) = 2
    /\ wrap.tokens[1].isSpace
    /\ \E p \in 2..Len(wrap.tokens) :
         /\ wrap.tokens[p].isSpace
         /\ ~wrap.tokens[p - 1].isSpace
         /\ p \notin PositionsInLines

\* ------------------------------------------------------------------------
\* C35: the non-whitespace tokens of the lines wrapTokens returns, read line
\* by line, are the non-whitespace tokens of its argument, each once and in
\* the order of the argument.
\* ------------------------------------------------------------------------
RECURSIVE FlattenLines(_)
FlattenLines(lines) ==
    IF lines = <<>> THEN <<>>
    ELSE FlattenLines(SubSeq(lines, 1, Len(lines) - 1)) \o lines[Len(lines)]

NonSpace(tokens) == SelectSeq(tokens, LAMBDA t : ~t.isSpace)

ArgumentTokens == [p \in DOMAIN wrap.tokens |-> TokenRef(p)]

C35_WordsKeptInOrder ==
    wrap.at = "done" => NonSpace(FlattenLines(wrap.lines)) = NonSpace(ArgumentTokens)

\* three words on three lines, one of them wider than maxWidth
C35_Witness ==
    /\ wrap.at = "done"
    /\ Len(wrap.lines) = 3
    /\ Len(NonSpace(ArgumentTokens)) = 3
    /\ \E p \in DOMAIN wrap.tokens : wrap.tokens[p].width > wrap.maxWidth
    /\ \E p \in DOMAIN wrap.tokens : wrap.tokens[p].isSpace

\* ------------------------------------------------------------------------
\* C37: before and after every consume, refund, addShareBonus and day
\* change, 0 <= used <= BASE_LIMIT + bonus and remaining is
\* BASE_LIMIT + bonus - used; an operation applied when the state's date is
\* not today yields today's date with used and bonus counted from 0: used 1
\* after consume, bonus 1 after addShareBonus, both 0 after refund.
\* ------------------------------------------------------------------------
QuotaInRange(quotaState) ==
    /\ 0 <= quotaState.used
    /\ quotaState.used <= BASE_LIMIT + quotaState.bonus
    /\ remaining(quotaState) = BASE_LIMIT + quotaState.bonus - quotaState.used

C37_QuotaInRangeAndResetOnNewDay ==
    [][ /\ QuotaInRange(quota.state)
        /\ QuotaInRange(quota'.state)
        /\ quota'.last \in { "consume", "refund", "addShareBonus" } =>
             IF quota.state.date # quota.today
             THEN /\ quota'.state.date = quota.today
                  /\ quota'.state.used = (IF quota'.last = "consume" THEN 1 ELSE 0)
                  /\ quota'.state.bonus = (IF quota'.last = "addShareBonus" THEN 1 ELSE 0)
             ELSE quota'.state.date = quota.state.date ]_vars

\* a refund on a day on which nothing was used yet, after a bonus of that
\* day replaced the state of the day before
C37_Witness ==
    /\ quota.last = "refund"
    /\ quota.today > FirstDay
    /\ quota.state = [date |-> quota.today, used |-> 0, bonus |-> 1]

\* ------------------------------------------------------------------------
\* C38: handleGenerate starts a generation only while remaining > 0 and
\* counts one unit for it on the current day; a unit is given back only when
\* a generation reports failure; and on no day does the number of
\* generations started on that day and not refunded exceed BASE_LIMIT plus
\* the share bonuses of that day, whatever the order of generate requests,
\* resets, share bonuses, completions, midnights and page loads.
\* ------------------------------------------------------------------------
StartedNotRefundedWithinLimit ==
    \A d \in DOMAIN quota.kept : quota.kept[d] <= BASE_LIMIT + quota.granted[d]

StepOrder ==
    { <<"idle", "outline">>, <<"outline", "chapters">>, <<"outline", "error">>,
      <<"chapters", "done">>, <<"chapters", "error">>,
      <<"done", "outline">>, <<"error", "outline">> }

ChapterIndexes(chapters) == { chapters[k].index : k \in DOMAIN chapters }

BookMatchesStep(genState) ==
    /\ genState.step = "chapters" =>
         /\ genState.book # NoBook
         /\ genState.book.chapters = <<>>
    /\ genState.step = "done" =>
         /\ genState.book # NoBook
         /\ Len(genState.book.chapters) = Len(genState.book.outline.chapters)
         /\ ChapterIndexes(genState.book.chapters)
              = ChapterIndexes(genState.book.outline.chapters)

C40_StepsInOrderAndIdleAfterReset ==
    [][ /\ \/ hook'.state.step = hook.state.step
           \/ hook'.last.op = "reset" /\ hook'.state.step = "idle"
           \/ <<hook.state.step, hook'.state.step>> \in StepOrder
        /\ BookMatchesStep(hook'.state)
        /\ hook'.sinceReset => hook'.state = initialState ]_vars

\* ------------------------------------------------------------------------
\* C39: the list of user images never holds more than MAX_IMAGE_UPLOADS (12)
\* images, whatever the order of file selections (whose reads complete
\* later), adds by URL, removals and clears.
\* ------------------------------------------------------------------------
C39_AtMostMaxImageUploads == Len(upl.userImages) <= MAX_IMAGE_UPLOADS

====
